---- MODULE Spec2Model ----
(***************************************************************************)
(* Model of the incremental issue indexer, knowledge-base/scripts/         *)
(* build_index.py: the Change State file, the change-detecting scan, the   *)
(* batched upserts into the SQLite store, the contentless FTS5 index, the  *)
(* deletion pass, the integrity gate and the final save of Change State;   *)
(* of the query engine, knowledge-base/scripts/search.py, and its cache;   *)
(* of the emitter of issue files, knowledge-base/scripts/emit_issue.py;    *)
(* and of the threshold orchestrator, src/orchestration/main.py.           *)
(***************************************************************************)
EXTENDS Integers, Sequences, FiniteSets, TLC

(* ------------------------------ bounds --------------------------------- *)

\* number of external changes (file written, file removed, store lost)
MaxEdits == 2

\* number of indexing runs
MaxRuns == 3

\* largest modification timestamp a file write can produce
MaxMtime == 2

\* largest --batch-size tried (parse_args accepts 1..10000)
MaxBatchSize == 2

\* number of files of the large corpus, enough to reach a memory sample
\* point and to fill a batch of the largest size after it
MemFiles == 5101

\* number of searches made between and after the indexing runs
MaxSearches == 2

\* number of times a caller that fills the query cache repeats a query
MaxRepeats == 2

\* number of calls of write_issues_batch
MaxEmits == 2

\* number of operations called on the orchestrator
MaxCalls == 3

(* --------------------------- values and inputs ------------------------- *)

\* SQL NULL / Python None
None == "NULL"

\* a key that is absent from the JSON object
Missing == "MISSING"

\* relative paths issues/<partition>/<issue_id>.json, as <<partition, stem>>
Paths == {<<"d1", "x">>, <<"d2", "x">>, <<"d1", "y">>}

\* Path(key).stem
Stem(key) == key[2]

Ids == {Stem(p) : p \in Paths}

MTimes == 1..MaxMtime

\* what a file on disk can hold
Contents == {"v1", "v2", "badtitle", "badsignal", "junk"}

EmptyFn == [x \in {} |-> 0]

Put(f, k, v) == [x \in (DOMAIN f) \cup {k} |-> IF x = k THEN v ELSE f[x]]

Remove(f, k) == [x \in (DOMAIN f) \ {k} |-> f[x]]

\* the document a file holds: v1 is a first version with three signals and
\* one reference, v2 a later version of the same identity (other rule id,
\* language, title, summary, one signal, no reference, no taxonomy)
DocOf(path, content) ==
    LET id == Stem(path) IN
    CASE content = "v1" ->
           [issue_id |-> id, source |-> "sonar", source_rule_id |-> "k1",
            language |-> "py", title |-> "t1", summary |-> "s1",
            fix_steps |-> None, severity |-> "major", confidence |-> None,
            taxonomy |-> "cwe1", frequency |-> None, metadata |-> "m1",
            updated_at |-> "u1",
            signals |-> << [kind |-> "rule_id", value |-> "k1"],
                           [kind |-> "tag", value |-> "sql"],
                           [kind |-> "tag", value |-> "auth"] >>,
            references |-> << [label |-> "l1", url |-> "w1", license |-> None] >>]
      [] content = "v2" ->
           [issue_id |-> id, source |-> "sonar", source_rule_id |-> "k2",
            language |-> "js", title |-> "t2", summary |-> None,
            fix_steps |-> "f2", severity |-> "minor", confidence |-> "high",
            taxonomy |-> Missing, frequency |-> "3", metadata |-> "m2",
            updated_at |-> "u2",
            signals |-> << [kind |-> "rule_id", value |-> "k2"] >>,
            references |-> << >>]
      [] content = "badtitle" ->
           [issue_id |-> id, source |-> "sonar", source_rule_id |-> "k1",
            language |-> "py", title |-> Missing, summary |-> "s1",
            fix_steps |-> None, severity |-> "major", confidence |-> None,
            taxonomy |-> "cwe1", frequency |-> None, metadata |-> "m1",
            updated_at |-> "u3",
            signals |-> << >>,
            references |-> << >>]
      [] OTHER ->
           [issue_id |-> id, source |-> "sonar", source_rule_id |-> "k1",
            language |-> "py", title |-> "t3", summary |-> "s1",
            fix_steps |-> None, severity |-> "major", confidence |-> None,
            taxonomy |-> "cwe1", frequency |-> None, metadata |-> "m1",
            updated_at |-> "u4",
            signals |-> << [kind |-> "rule_id", value |-> "k1"],
                           [kind |-> "tag", value |-> Missing] >>,
            references |-> << >>]

\* json_utils.MAX_JSON_BYTES
MAX_JSON_BYTES == 1000000

\* path.stat().st_size of a file: a v1 file is exactly at the ceiling, a
\* junk file one byte above it, the other files are one byte below it
Size(content) ==
    CASE content = "v1" -> MAX_JSON_BYTES
      [] content = "junk" -> MAX_JSON_BYTES + 1
      [] OTHER -> MAX_JSON_BYTES - 1

\* Loadable as it would be if a file exactly at the ceiling were rejected
LoadableBelowCeiling(content) == Size(content) < MAX_JSON_BYTES

\* load_json raises ValueError when "size > MAX_JSON_BYTES", before the file
\* is opened (a file that is not JSON raises from json.load and leaves
\* main by the same path)
Loadable(content) == ~(Size(content) > MAX_JSON_BYTES)

\* what load_json does to the file: the size is read, and the content is
\* read only when the size passed
LoadSteps(content) ==
    IF Loadable(content) THEN <<"stat_size", "read">> ELSE <<"stat_size">>

load_json(path, content) == DocOf(path, content)

(* ------------------------------ the store ------------------------------ *)

\* a store whose file was just created by connect() and the schema script:
\* no document, child or index row, no index configuration yet
EmptyDb ==
    [issues |-> EmptyFn,
     signals |-> [i \in Ids |-> << >>],
     references_web |-> [i \in Ids |-> << >>],
     fts |-> EmptyFn,
     docsize |-> {},
     automerge |-> 0,
     cookie |-> 0]

\* json.dumps(doc.get(field, {}))
JsonDumps(v) == IF v = Missing THEN <<"json", "{}">> ELSE <<"json", v>>

\* rowid SQLite gives a new row of a rowid table: largest rowid + 1
RECURSIVE MaxOf(_)
MaxOf(S) ==
    IF S = {} THEN 0
    ELSE LET x == CHOOSE y \in S : TRUE
             m == MaxOf(S \ {x})
         IN IF x > m THEN x ELSE m

NewRowid(issues) == MaxOf({issues[i].rowid : i \in DOMAIN issues}) + 1

SignalOk(s) == s.kind # Missing /\ s.value # Missing

ReferenceOk(r) == r.label # Missing /\ r.url # Missing

\* doc['issue_id'], doc['source'], doc['title'] raise KeyError when absent
ParamsOk(doc) ==
    doc.issue_id # Missing /\ doc.source # Missing /\ doc.title # Missing


\* the loop "for s in doc.get('signals', [])": rows inserted until a signal
\* lacks 'kind' or 'value' (KeyError)
RECURSIVE InsertSignals(_, _)
InsertSignals(rows, sigs) ==
    IF sigs = << >> THEN [ok |-> TRUE, rows |-> rows]
    ELSE IF ~SignalOk(Head(sigs)) THEN [ok |-> FALSE, rows |-> rows]
    ELSE InsertSignals(Append(rows, [kind |-> Head(sigs).kind,
                                     value |-> Head(sigs).value]),
                       Tail(sigs))

\* the loop "for r in doc.get('references', [])"
RECURSIVE InsertReferences(_, _)
InsertReferences(rows, refs) ==
    IF refs = << >> THEN [ok |-> TRUE, rows |-> rows]
    ELSE IF ~ReferenceOk(Head(refs)) THEN [ok |-> FALSE, rows |-> rows]
    ELSE InsertReferences(Append(rows, [label |-> Head(refs).label,
                                        url |-> Head(refs).url,
                                        license |-> Head(refs).license]),
                          Tail(refs))

\* ReplaceSignals as it would be without the DELETE
KeepSignals(old, sigs) == InsertSignals(old, sigs)

\* "DELETE FROM signals WHERE issue_id=?" and then the insert loop: the rows
\* the identity had (old) are gone before the current signals go in
ReplaceSignals(old, sigs) == InsertSignals(<< >>, sigs)

\* "DELETE FROM references_web WHERE issue_id=?" and then the insert loop
ReplaceReferences(old, refs) == InsertReferences(<< >>, refs)

\* INSERT INTO issues ... ON CONFLICT(issue_id) DO UPDATE SET ...: a new row
\* takes all thirteen columns, an existing row keeps its rowid, source,
\* source_rule_id and language and takes the nine columns of the SET list
IssueRow(issues, doc) ==
    IF doc.issue_id \in DOMAIN issues
    THEN [issues[doc.issue_id] EXCEPT
            !.title = doc.title,
            !.summary = doc.summary,
            !.fix_steps = doc.fix_steps,
            !.severity = doc.severity,
            !.confidence = doc.confidence,
            !.frequency = doc.frequency,
            !.taxonomy_json = JsonDumps(doc.taxonomy),
            !.metadata_json = JsonDumps(doc.metadata),
            !.updated_at = doc.updated_at]
    ELSE [rowid |-> NewRowid(issues),
          issue_id |-> doc.issue_id,
          source |-> doc.source,
          source_rule_id |-> doc.source_rule_id,
          language |-> doc.language,
          title |-> doc.title,
          summary |-> doc.summary,
          fix_steps |-> doc.fix_steps,
          severity |-> doc.severity,
          confidence |-> doc.confidence,
          taxonomy_json |-> JsonDumps(doc.taxonomy),
          frequency |-> doc.frequency,
          metadata_json |-> JsonDumps(doc.metadata),
          updated_at |-> doc.updated_at]

\* upsert_issue inside the open transaction: the result carries the store
\* as far as the statements got, the tables they wrote (w), and ok = FALSE
\* when a KeyError stopped it
upsert_issue(db, doc) ==
    IF ~ParamsOk(doc) THEN [ok |-> FALSE, db |-> db, w |-> {}]
    ELSE
      LET id == doc.issue_id
          db1 == [db EXCEPT !.issues = Put(@, id, IssueRow(db.issues, doc))]
          sg == ReplaceSignals(db1.signals[id], doc.signals)
          db2 == [db1 EXCEPT !.signals[id] = sg.rows]
          rf == ReplaceReferences(db2.references_web[id], doc.references)
          db3 == [db2 EXCEPT !.references_web[id] = rf.rows]
      IN IF ~sg.ok
         THEN [ok |-> FALSE, db |-> db2, w |-> {"issues", "signals"}]
         ELSE [ok |-> rf.ok, db |-> db3,
               w |-> {"issues", "signals", "references_web"}]

\* COALESCE(x, '')
Coalesce(v) == IF v = None THEN "" ELSE v

\* TRIM(GROUP_CONCAT(value, ' ')): the values in row order, NULL values
\* skipped (no row gives NULL, which COALESCE turns into the empty text)
RECURSIVE GroupConcat(_)
GroupConcat(rows) ==
    IF rows = << >> THEN << >>
    ELSE IF Head(rows).value = None THEN GroupConcat(Tail(rows))
    ELSE <<Head(rows).value>> \o GroupConcat(Tail(rows))

\* the text the statement of update_fts selects for a document
FtsText(db, issue_id) ==
    LET i == db.issues[issue_id] IN
    [title |-> i.title,
     summary |-> Coalesce(i.summary),
     fix_steps |-> Coalesce(i.fix_steps),
     signals_concat |-> GroupConcat(db.signals[issue_id]),
     language |-> Coalesce(i.language)]

\* what the contentless index holds for a rowid
FtsTerms(db, rowid) == IF rowid \in DOMAIN db.fts THEN db.fts[rowid] ELSE {}

\* INSERT INTO fts_issues(rowid, ...) on a contentless FTS5 table: the terms
\* of the new text are added under the rowid; there is no content table and
\* so no conflict with, and no removal of, what the rowid already indexes
FtsInsert(db, rowid, text) ==
    [db EXCEPT !.fts = Put(@, rowid, FtsTerms(db, rowid) \cup {text}),
               !.docsize = @ \cup {rowid}]

\* the column values of a 'delete' command that names the rowid only
NoValues ==
    [title |-> None, summary |-> None, fix_steps |-> None,
     signals_concat |-> None, language |-> None]

\* INSERT INTO fts_issues(fts_issues, rowid, ...) VALUES('delete', ...) on a
\* contentless FTS5 table: removes the terms of the column values supplied
\* with the command, and the size record of the rowid
FtsDeleteCmd(db, rowid, values) ==
    [db EXCEPT !.fts = IF rowid \in DOMAIN @
                       THEN [@ EXCEPT ![rowid] = @ \ {values}]
                       ELSE @,
               !.docsize = @ \ {rowid}]

update_fts(db, issue_id) ==
    IF issue_id \notin DOMAIN db.issues THEN db
    ELSE FtsInsert(db, db.issues[issue_id].rowid, FtsText(db, issue_id))

delete_issue(db, issue_id) ==
    IF issue_id \notin DOMAIN db.issues THEN db
    ELSE LET d1 == FtsDeleteCmd(db, db.issues[issue_id].rowid, NoValues)
             d2 == [d1 EXCEPT !.signals[issue_id] = << >>]
             d3 == [d2 EXCEPT !.references_web[issue_id] = << >>]
         IN [d3 EXCEPT !.issues = Remove(@, issue_id)]

\* the loop of process_batch inside its transaction
RECURSIVE ApplyBatch(_, _, _)
ApplyBatch(db, docs, w) ==
    IF docs = << >> THEN [ok |-> TRUE, db |-> db, w |-> w]
    ELSE LET u == upsert_issue(db, Head(docs))
         IN IF ~u.ok THEN [ok |-> FALSE, db |-> u.db, w |-> w \cup u.w]
            ELSE ApplyBatch(update_fts(u.db, Head(docs).issue_id), Tail(docs),
                            w \cup u.w \cup {"fts_issues"})

\* process_batch as it would be if the statements of a failed batch stayed
\* in the store
process_batch_partial(db, docs) == ApplyBatch(db, docs, {})

\* BEGIN ... commit: an exception leaves the transaction uncommitted and the
\* connection is dropped with the process, so the store keeps its state
\* from before BEGIN
process_batch(db, docs) ==
    LET r == ApplyBatch(db, docs, {})
    IN IF r.ok THEN r ELSE [ok |-> FALSE, db |-> db, w |-> r.w]

\* the loop "for key in removed: delete_issue(cur, Path(key).stem)"
RECURSIVE DeleteAll(_, _)
DeleteAll(db, keys) ==
    IF keys = {} THEN db
    ELSE LET k == CHOOSE x \in keys : TRUE
         IN DeleteAll(delete_issue(db, Stem(k)), keys \ {k})

\* 'automerge' value main configures (rank column of the command)
Automerge == 4

\* INSERT INTO fts_issues(fts_issues, rank) VALUES('automerge', 4): FTS5
\* stores the value in its configuration table and advances the
\* configuration cookie of the index
SetAutomerge(db) == [db EXCEPT !.automerge = Automerge, !.cookie = @ + 1]

\* check_integrity: the FTS5 'integrity-check' command, then PRAGMA
\* integrity_check, examine the structure of the store; ftsOk and dbOk are
\* what they find, and the first to fail raises
check_integrity(ftsOk, dbOk) == ftsOk /\ dbOk

\* the checks check_integrity gets to run
CheckSteps(ftsOk) ==
    IF ftsOk THEN <<"check_fts", "check_db">> ELSE <<"check_fts">>

(* ------------------------------- state --------------------------------- *)

VARIABLES
    disk,          \* files under issuesdb/issues: path -> [mtime, content]
    stateFile,     \* issuesdb/index_state.json: path -> mtime
    dbExists,      \* issuesdb/issues.sqlite exists
    db,            \* the committed content of the store
    pc,            \* position of main: idle, scan, decide, delete, finish
    state,         \* main: state
    removed_keys,  \* main: removed_keys
    new_state,     \* main: new_state
    total,         \* main: total
    changed,       \* main: changed
    batch,         \* main: batch, each document with the path it came from
    batch_size,    \* main: args.batch_size
    listing,       \* paths iter_issue_files() has still to yield
    removed,       \* main: removed
    outcome,       \* how the last run ended: none, running, noop, success, aborted
    failure,       \* what aborted it: none, load, upsert, delete, integrity
    dbPre,         \* the store content when the run started
    dbExistedPre,  \* whether the store file existed when the run started
    diskPrev,      \* the files as the previous run found them
    nLoaded,       \* path -> number of load_json calls in this run
    nUpsert,       \* path -> number of committed upserts in this run
    writes,        \* tables and commands the run has written to the store
    lastOk,        \* the last run to change anything succeeded, no change since
    followsOk,     \* lastOk when this run started
    runs,          \* number of runs started
    edits,         \* number of external changes made
    steps,         \* what the run has done to files and store, in order
    metrics,       \* events the metrics sink has received
    alerts,        \* messages the critical-alert sink has received
    argv,          \* command line: --batch-size, --memory-warn-mb, --memory-limit-mb
    env_limit,     \* environment: ISSUES_KB_MEMORY_LIMIT_MB, "" when unset
    memory_warn_mb,   \* args.memory_warn_mb, {} for None
    memory_limit_mb,  \* args.memory_limit_mb, {} for None
    rss,           \* monitor.rss_mb() at the last sample point, in MB
    corpus,        \* number of files a large corpus has still to yield
    lastFlush,     \* number of documents of the last batch flushed
    cur,           \* the file whose timestamp the scan has read and whose
                   \* content it has still to load, as it was at the stat
    stamps,        \* path -> timestamps the file has had
    midscan,       \* paths last written while a scan was under way
    racy,          \* paths last written with a timestamp they had before
    cache,         \* search: the lru_cache, least recently used entry first
    connects,      \* number of sqlite3.connect calls query_fts has made
    sent,          \* match expressions query_fts has sent to the store
    answer,        \* what the last search did: key, rows or error, cache hit
    searches,      \* number of searches made
    lastUse,       \* (query, limit) -> the search that last used the pair
    issueFiles,    \* emit_issue: final path -> body of the file there
    tmpFiles,      \* emit_issue: final path -> body of its .json.tmp file
    emitted,       \* the last call of write_issues_batch and how it ended
    emits,         \* number of calls of write_issues_batch
    dashboard,     \* orchestrator: the content of the dashboard file
    tasks,         \* the coroutines running on the orchestrator
    lock,          \* who holds self._lock, 0 when it is free
    version,       \* number of times an operation has written the dashboard
    calls          \* number of operations called

vars ==
    <<disk, stateFile, dbExists, db, pc, state, removed_keys, new_state,
      total, changed, batch, batch_size, listing, removed, outcome, failure,
      dbPre, dbExistedPre, diskPrev, nLoaded, nUpsert, writes, lastOk,
      followsOk, runs, edits, steps, metrics, alerts, argv, env_limit,
      memory_warn_mb, memory_limit_mb, rss, corpus, lastFlush,
      cur, stamps, midscan, racy, cache, connects, sent, answer, searches,
      lastUse, issueFiles, tmpFiles, emitted, emits, dashboard, tasks, lock,
      version, calls>>

\* the sinks, which no step of the indexing run writes to
sinkVars == <<metrics, alerts>>

\* the configuration of the run
cfgVars == <<argv, env_limit, memory_warn_mb, memory_limit_mb>>

\* the memory samples and the flush sizes of a scan over a large corpus
memVars == <<rss, corpus, lastFlush>>

\* what is known of the writes made while a scan is under way
raceVars == <<cur, stamps, midscan, racy>>

\* the query engine: its process-wide cache and what it did to the store
searchVars == <<cache, connects, sent, answer, searches, lastUse>>

\* the emitter of issue files: its files and its last call
emitVars == <<issueFiles, tmpFiles, emitted, emits>>

\* the threshold orchestrator: its dashboard file, coroutines and lock
orchVars == <<dashboard, tasks, lock, version, calls>>

\* the variables no step of a run between two writes gives a value to
otherVars == <<raceVars, searchVars, emitVars, orchVars>>

envVars == <<disk, stateFile, dbExists, db>>

runVars ==
    <<state, removed_keys, new_state, total, changed, batch, batch_size,
      listing, removed>>

obsVars == <<dbPre, dbExistedPre, nLoaded, nUpsert, writes, followsOk>>

\* the indexer and the query engine, which neither the emitter nor the
\* orchestrator touches
nearVars ==
    <<envVars, pc, runVars, outcome, failure, obsVars, diskPrev, lastOk,
      runs, edits, steps, sinkVars, cfgVars, memVars, raceVars, searchVars>>

\* load_state: the mapping in the file, {} when there is no file
load_state(file) == file

\* save_state as it would be if it recorded the timestamps the files have
\* when it runs and not those the scan read
save_state_restat(file, mapping) ==
    [k \in DOMAIN mapping |->
        IF k \in DOMAIN disk THEN disk[k].mtime ELSE mapping[k]]

\* save_state: the file is replaced by the mapping given
save_state(file, mapping) == mapping

\* StateGet as it would be if the recorded timestamp were never found
StateGetNothing(st, key) == 0

\* state.get(key): None, written 0, when the path is not recorded (recorded
\* timestamps are positive)
StateGet(st, key) == IF key \in DOMAIN st THEN st[key] ELSE 0

\* an argument list without options, handed to main by its caller; an
\* option is the set of its value, {} when it is absent, and via tells how
\* the list reaches main: "argument" for main(argv), "sys.argv" for the
\* command line of "python build_index.py ...", which calls main()
NoArgs ==
    [via |-> "argument", batch_size |-> {}, memory_warn_mb |-> {},
     memory_limit_mb |-> {}]

\* no injected failure of a file operation
NoFailure == [step |-> "none", at |-> 0]

\* the fields read_current_config requires
RequiredFields == {"project_phase", "gate_thresholds", "learning_adjustments"}

\* a dashboard file: the three threshold fields and the schema field of
\* another owner; threshold and adjustment of the security gate are in
\* thousandths
DefaultDashboard ==
    [kind |-> "json", fields |-> RequiredFields \cup {"schema"},
     project_phase |-> "dev", gate_thresholds |-> 800,
     learning_adjustments |-> 0]

\* the coroutines that may run at once on one orchestrator
Tasks == {1, 2}

\* a coroutine that is not running
IdleTask ==
    [pc |-> "idle", op |-> "none", arg |-> "none", retries |-> 0,
     attempt |-> 0, seen |-> 0, config |-> {}, data |-> {}, res |-> "none"]

\* the variables of otherVars before anything has run
InitOther ==
    /\ cur = {}
    /\ stamps = [p \in Paths |-> {}]
    /\ midscan = {}
    /\ racy = {}
    /\ cache = << >>
    /\ connects = 0
    /\ sent = {}
    /\ answer = [key |-> << >>, out |-> "none", rows |-> {}, hit |-> FALSE]
    /\ searches = 0
    /\ lastUse = EmptyFn
    /\ issueFiles = EmptyFn
    /\ tmpFiles = EmptyFn
    /\ emitted = [docs |-> << >>, out |-> "none", fail |-> NoFailure]
    /\ emits = 0
    /\ dashboard = DefaultDashboard
    /\ tasks = [t \in Tasks |-> IdleTask]
    /\ lock = 0
    /\ version = 0
    /\ calls = 0

Init ==
    /\ disk = EmptyFn
    /\ stateFile = EmptyFn
    /\ dbExists = FALSE
    /\ db = EmptyDb
    /\ pc = "idle"
    /\ state = EmptyFn
    /\ removed_keys = {}
    /\ new_state = EmptyFn
    /\ total = 0
    /\ changed = 0
    /\ batch = << >>
    /\ batch_size = 1
    /\ listing = {}
    /\ removed = {}
    /\ outcome = "none"
    /\ failure = "none"
    /\ dbPre = EmptyDb
    /\ dbExistedPre = FALSE
    /\ diskPrev = EmptyFn
    /\ nLoaded = [p \in Paths |-> 0]
    /\ nUpsert = [p \in Paths |-> 0]
    /\ writes = {}
    /\ lastOk = FALSE
    /\ followsOk = FALSE
    /\ runs = 0
    /\ edits = 0
    /\ steps = << >>
    /\ metrics = << >>
    /\ alerts = << >>
    /\ argv = NoArgs
    /\ env_limit = ""
    /\ memory_warn_mb = {}
    /\ memory_limit_mb = {}
    /\ rss = 0
    /\ corpus = 0
    /\ lastFlush = 0
    /\ InitOther

(* --------------------------- the environment --------------------------- *)

\* the producing collaborator writes or rewrites a file between two runs
WriteFile ==
    /\ pc = "idle"
    /\ edits < MaxEdits
    /\ \E p \in Paths, c \in Contents, m \in MTimes :
          /\ p \in DOMAIN disk => disk[p].mtime # m
          /\ disk' = Put(disk, p, [mtime |-> m, content |-> c])
    /\ edits' = edits + 1
    /\ lastOk' = FALSE
    /\ UNCHANGED <<stateFile, dbExists, db, pc, runVars, outcome, failure,
                   obsVars, diskPrev, runs, steps, sinkVars, otherVars, cfgVars, memVars>>

\* a file is removed between two runs
RemoveFile ==
    /\ pc = "idle"
    /\ edits < MaxEdits
    /\ \E p \in DOMAIN disk : disk' = Remove(disk, p)
    /\ edits' = edits + 1
    /\ lastOk' = FALSE
    /\ UNCHANGED <<stateFile, dbExists, db, pc, runVars, outcome, failure,
                   obsVars, diskPrev, runs, steps, sinkVars, otherVars, cfgVars, memVars>>

\* the store file is lost between two runs, the Change State file is kept
LoseStore ==
    /\ pc = "idle"
    /\ edits < MaxEdits
    /\ dbExists
    /\ dbExists' = FALSE
    /\ db' = EmptyDb
    /\ edits' = edits + 1
    /\ lastOk' = FALSE
    /\ UNCHANGED <<disk, stateFile, pc, runVars, outcome, failure, obsVars,
                   diskPrev, runs, steps, sinkVars, otherVars, cfgVars, memVars>>

\* a file is moved to another partition directory between two runs (the
\* rename keeps its modification time)
MoveFile ==
    /\ pc = "idle"
    /\ edits < MaxEdits
    /\ \E p \in DOMAIN disk, q \in Paths \ DOMAIN disk :
          /\ Stem(q) = Stem(p)
          /\ disk' = Put(Remove(disk, p), q, disk[p])
    /\ edits' = edits + 1
    /\ lastOk' = FALSE
    /\ UNCHANGED <<stateFile, dbExists, db, pc, runVars, outcome, failure,
                   obsVars, diskPrev, runs, steps, sinkVars, otherVars, cfgVars, memVars>>


(* --------------------------- the configuration ------------------------- *)

\* default of --batch-size
DefaultBatchSize == 1000

\* the bounds parse_args puts on --batch-size
BatchSizeMin == 1

BatchSizeMax == 10000

\* the value of an option that is present
ValueOf(opt) == CHOOSE v \in opt : TRUE

\* int(env_limit): the integer the string denotes, {} when int() raises
\* ValueError
ParseInt(str) ==
    CASE str = "0" -> {0}
      [] str = "3" -> {3}
      [] str = "-2" -> {0 - 2}
      [] OTHER -> {}

\* "argv or []" in main: called without an argument, as the script does,
\* main parses the empty list and never looks at the command line
EffectiveArgv(a) == IF a.via = "sys.argv" THEN NoArgs ELSE a

\* an option that is present and not positive
NotPositive(opt) == opt # {} /\ ValueOf(opt) <= 0

\* parse_args given the argument list a and the environment value e: the
\* Namespace it returns, or the error it raises
parse_args(a, e) ==
    LET bs == IF a.batch_size = {} THEN DefaultBatchSize
              ELSE ValueOf(a.batch_size)
        fromEnv == a.memory_limit_mb = {} /\ e # ""
        limit == IF fromEnv THEN ParseInt(e) ELSE a.memory_limit_mb
        args == [batch_size |-> bs, memory_warn_mb |-> a.memory_warn_mb,
                 memory_limit_mb |-> limit]
    IN
    CASE ~(BatchSizeMin <= bs /\ bs <= BatchSizeMax) ->
           [ok |-> FALSE, error |-> "batch_size", args |-> args]
      [] OTHER ->
           IF fromEnv /\ ParseInt(e) = {}
           THEN [ok |-> FALSE, error |-> "env_not_integer", args |-> args]
           ELSE IF NotPositive(a.memory_warn_mb) \/ NotPositive(limit)
                THEN [ok |-> FALSE, error |-> "not_positive", args |-> args]
                ELSE [ok |-> TRUE, error |-> "none", args |-> args]

\* Exceeds as it would be if the projection were never compared
ExceedsNever(projected, limit) == FALSE

\* "args.memory_limit_mb and projected_mb > args.memory_limit_mb"
Exceeds(projected, limit) ==
    limit # {} /\ ValueOf(limit) # 0 /\ projected > ValueOf(limit)

(* ------------------------------- the run ------------------------------- *)

Docs(b) == [i \in 1..Len(b) |-> b[i].doc]

BatchPaths(b) == {b[i].path : i \in 1..Len(b)}

\* the run ends with an exception: the process terminates
Abort(reason) ==
    /\ pc' = "idle"
    /\ outcome' = "aborted"
    /\ failure' = reason
    /\ diskPrev' = disk
    /\ lastOk' = FALSE

\* FreshState as it would be if the new snapshot started from the old one
CarriedState == load_state(stateFile)

\* "new_state = {}": the snapshot of this scan starts empty
FreshState == EmptyFn

\* main from load_state up to the scan loop, with args.batch_size = bs and
\* done what the run did before: load_state, connect (which creates the
\* store file when there is none), schema script, automerge configuration,
\* commit
Open(bs, done) ==
    /\ batch_size' = bs
    /\ state' = load_state(stateFile)
    /\ removed_keys' = DOMAIN load_state(stateFile)
    /\ new_state' = FreshState
    /\ total' = 0
    /\ changed' = 0
    /\ batch' = << >>
    /\ removed' = {}
    /\ listing' = DOMAIN disk
    /\ dbExists' = TRUE
    /\ db' = SetAutomerge(IF dbExists THEN db ELSE EmptyDb)
    /\ pc' = "scan"
    /\ outcome' = "running"
    /\ failure' = "none"
    /\ dbPre' = db
    /\ dbExistedPre' = dbExists
    /\ nLoaded' = [p \in Paths |-> 0]
    /\ nUpsert' = [p \in Paths |-> 0]
    /\ writes' = IF dbExists THEN {"fts_config"} ELSE {"schema", "fts_config"}
    /\ followsOk' = lastOk
    /\ runs' = runs + 1
    /\ steps' = done \o <<"load_state", "connect", "schema", "automerge",
                           "commit_config">>
    /\ UNCHANGED <<disk, stateFile, diskPrev, lastOk, edits, sinkVars, otherVars, memVars>>

\* a run started with --batch-size bs and no memory option, on a corpus
\* whose projected estimate nothing limits
StartRun ==
    /\ pc = "idle"
    /\ runs < MaxRuns
    /\ \E bs \in 1..MaxBatchSize :
         /\ argv' = [NoArgs EXCEPT !.batch_size = {bs}]
         /\ Open(bs, <<"list_files">>)
    /\ UNCHANGED <<env_limit, memory_warn_mb, memory_limit_mb>>

\* what process_batch does to the connection: BEGIN, the statements of the
\* documents, and the commit, which an exception raised by a statement
\* leaves out (process_batch has no handler: nothing rolls back)
BatchSteps(ok) ==
    IF ok THEN <<"begin_batch", "commit_batch">> ELSE <<"begin_batch">>

\* one iteration of "for path in iter_issue_files()"
ScanFile ==
    /\ pc = "scan"
    /\ \E path \in listing :
         LET mtime == disk[path].mtime
             key == path
             isChanged == StateGet(state, key) # mtime
             canLoad == Loadable(disk[path].content)
             b1 == Append(batch, [path |-> path,
                                  doc |-> load_json(path, disk[path].content)])
             flush == Len(b1) >= batch_size
             r == process_batch(db, Docs(b1))
             s1 == Append(steps, "stat_mtime")
             s2 == s1 \o LoadSteps(disk[path].content)
         IN
         /\ listing' = listing \ {path}
         /\ total' = total + 1
         /\ new_state' = Put(new_state, key, mtime)
         /\ removed_keys' = removed_keys \ {key}
         /\ IF ~isChanged
            THEN /\ steps' = s1
                 /\ UNCHANGED <<db, batch, changed, nLoaded, nUpsert, writes,
                                pc, outcome, failure, diskPrev, lastOk>>
            ELSE
              /\ nLoaded' = [nLoaded EXCEPT ![path] = @ + 1]
              /\ IF ~canLoad
                 THEN /\ Abort("load")
                      /\ steps' = s2
                      /\ UNCHANGED <<db, batch, changed, nUpsert, writes>>
                 ELSE
                   /\ changed' = changed + 1
                   /\ IF ~flush
                      THEN /\ batch' = b1
                           /\ steps' = s2
                           /\ UNCHANGED <<db, nUpsert, writes, pc, outcome,
                                          failure, diskPrev, lastOk>>
                      ELSE
                        /\ writes' = writes \cup r.w
                        /\ db' = r.db
                        /\ steps' = s2 \o BatchSteps(r.ok)
                        /\ IF r.ok
                           THEN /\ batch' = << >>
                                /\ nUpsert' = [p \in Paths |->
                                     IF p \in BatchPaths(b1)
                                     THEN nUpsert[p] + 1 ELSE nUpsert[p]]
                                /\ UNCHANGED <<pc, outcome, failure, diskPrev, lastOk>>
                           ELSE /\ batch' = b1
                                /\ Abort("upsert")
                                /\ UNCHANGED nUpsert
    /\ UNCHANGED <<disk, stateFile, dbExists, state, batch_size, removed,
                   dbPre, dbExistedPre, followsOk, runs, edits, sinkVars, otherVars,
                   cfgVars, memVars>>

\* "if batch: process_batch(...); batch.clear()" after the loop
FinalFlush ==
    /\ pc = "scan"
    /\ listing = {}
    /\ LET r == process_batch(db, Docs(batch)) IN
       IF batch = << >>
       THEN /\ pc' = "decide"
            /\ UNCHANGED <<db, batch, nUpsert, writes, outcome, failure,
                           diskPrev, lastOk, steps>>
       ELSE /\ writes' = writes \cup r.w
            /\ db' = r.db
            /\ steps' = steps \o BatchSteps(r.ok)
            /\ IF r.ok
               THEN /\ batch' = << >>
                    /\ nUpsert' = [p \in Paths |->
                         IF p \in BatchPaths(batch)
                         THEN nUpsert[p] + 1 ELSE nUpsert[p]]
                    /\ pc' = "decide"
                    /\ UNCHANGED <<outcome, failure, diskPrev, lastOk>>
               ELSE /\ Abort("upsert")
                    /\ UNCHANGED <<batch, nUpsert>>
    /\ UNCHANGED <<disk, stateFile, dbExists, state, removed_keys, new_state,
                   total, changed, batch_size, listing, removed, dbPre,
                   dbExistedPre, followsOk, nLoaded, runs, edits, sinkVars, otherVars,
                   cfgVars, memVars>>

\* DbFileExists as it would be if the test always failed
DbFileNeverExists == FALSE

\* DB.exists() where main evaluates it, after sqlite3.connect(DB)
DbFileExists == dbExists

\* "removed = list(removed_keys)" and the up-to-date test
Decide ==
    /\ pc = "decide"
    /\ removed' = removed_keys
    /\ IF changed = 0 /\ removed_keys = {} /\ DbFileExists
       THEN /\ pc' = "idle"
            /\ outcome' = "noop"
            /\ diskPrev' = disk
            /\ steps' = Append(steps, "close")
            /\ UNCHANGED lastOk
       ELSE /\ pc' = "delete"
            /\ UNCHANGED <<outcome, diskPrev, lastOk, steps>>
    /\ UNCHANGED <<envVars, state, removed_keys, new_state, total, changed,
                   batch, batch_size, listing, failure, obsVars, runs, edits,
                   sinkVars, otherVars, cfgVars, memVars>>

\* what the deletion pass does to the connection: BEGIN, the deletes, and
\* the commit, which an exception raised by a statement leaves out
DeleteSteps(ok) ==
    IF ok THEN <<"begin_delete", "commit_delete">> ELSE <<"begin_delete">>

\* "if removed:" the deletion transaction; ioOk = FALSE is a store error
\* (disk full, locked file) raised by one of its statements
DeletePass ==
    /\ pc = "delete"
    /\ \E ioOk \in BOOLEAN :
         IF removed = {}
         THEN /\ ioOk
              /\ pc' = "finish"
              /\ UNCHANGED <<db, writes, outcome, failure, diskPrev, lastOk,
                             steps>>
         ELSE /\ steps' = steps \o DeleteSteps(ioOk)
              /\ writes' = writes \cup
                   (IF \E k \in removed : Stem(k) \in DOMAIN db.issues
                    THEN {"fts_issues", "signals", "references_web", "issues"}
                    ELSE {})
              /\ IF ioOk
                 THEN /\ db' = DeleteAll(db, removed)
                      /\ pc' = "finish"
                      /\ UNCHANGED <<outcome, failure, diskPrev, lastOk>>
                 ELSE /\ db' = db
                      /\ Abort("delete")
    /\ UNCHANGED <<disk, stateFile, dbExists, runVars, dbPre, dbExistedPre, followsOk,
                   nLoaded, nUpsert, runs, edits, sinkVars, otherVars, cfgVars, memVars>>

\* Finish as it would be if save_state ran before check_integrity
FinishSavesFirst ==
    /\ pc = "finish"
    /\ writes' = writes \cup {"fts_merge", "fts_optimize"}
    /\ stateFile' = save_state(stateFile, new_state)
    /\ \E ftsOk, dbOk \in BOOLEAN :
         LET s1 == steps \o <<"save_state", "begin_final", "merge", "optimize">>
                         \o CheckSteps(ftsOk)
         IN
         IF check_integrity(ftsOk, dbOk)
         THEN /\ pc' = "idle"
              /\ outcome' = "success"
              /\ diskPrev' = disk
              /\ lastOk' = TRUE
              /\ steps' = s1 \o <<"commit_final", "close">>
              /\ UNCHANGED failure
         ELSE /\ Abort("integrity")
              /\ steps' = s1
    /\ UNCHANGED <<disk, dbExists, db, runVars, dbPre, dbExistedPre, followsOk, nLoaded,
                   nUpsert, runs, edits, sinkVars, otherVars, cfgVars, memVars>>

\* merge, optimize, check_integrity, commit, close, save_state
Finish ==
    /\ pc = "finish"
    /\ writes' = writes \cup {"fts_merge", "fts_optimize"}
    /\ \E ftsOk, dbOk \in BOOLEAN :
         LET s1 == steps \o <<"begin_final", "merge", "optimize">>
                         \o CheckSteps(ftsOk)
         IN
         IF check_integrity(ftsOk, dbOk)
         THEN /\ stateFile' = save_state(stateFile, new_state)
              /\ pc' = "idle"
              /\ outcome' = "success"
              /\ diskPrev' = disk
              /\ lastOk' = TRUE
              /\ steps' = s1 \o <<"commit_final", "close", "save_state">>
              /\ UNCHANGED failure
         ELSE /\ Abort("integrity")
              /\ steps' = s1
              /\ UNCHANGED stateFile
    /\ UNCHANGED <<disk, dbExists, db, runVars, dbPre, dbExistedPre, followsOk, nLoaded,
                   nUpsert, runs, edits, sinkVars, otherVars, cfgVars, memVars>>

Next ==
    \/ WriteFile
    \/ RemoveFile
    \/ LoseStore
    \/ MoveFile
    \/ StartRun
    \/ ScanFile
    \/ FinalFlush
    \/ Decide
    \/ DeletePass
    \/ Finish

Spec == Init /\ [][Next]_vars

TypeOK ==
    /\ pc \in {"idle", "parsed", "ready", "scan", "load", "decide", "delete",
             "finish"}
    /\ outcome \in {"none", "running", "noop", "success", "aborted"}
    /\ DOMAIN disk \subseteq Paths
    /\ DOMAIN stateFile \subseteq Paths
    /\ total \in 0..MemFiles


(* ------------------------- the opening of a run ------------------------ *)

\* the argument lists tried: batch sizes around both bounds, memory
\* options absent, not positive and positive
Argvs ==
    [via : {"sys.argv", "argument"},
     batch_size : {{}, {0}, {1}, {2}, {BatchSizeMax}, {BatchSizeMax + 1}},
     memory_warn_mb : {{}, {0}, {3}},
     memory_limit_mb : {{}, {0 - 1}, {1}, {3}}]

\* the values of ISSUES_KB_MEMORY_LIMIT_MB tried, "" when it is unset
EnvValues == {"", "abc", "0", "3", "-2"}

\* the corpora the first run can find: first versions of some of the files
StartDisks ==
    {[p \in ps |-> [mtime |-> 1, content |-> "v1"]] : ps \in SUBSET Paths}

\* before the first run, on any of these corpora
InitStart ==
    /\ disk \in StartDisks
    /\ stateFile = EmptyFn
    /\ dbExists = FALSE
    /\ db = EmptyDb
    /\ pc = "idle"
    /\ state = EmptyFn
    /\ removed_keys = {}
    /\ new_state = EmptyFn
    /\ total = 0
    /\ changed = 0
    /\ batch = << >>
    /\ batch_size = 1
    /\ listing = {}
    /\ removed = {}
    /\ outcome = "none"
    /\ failure = "none"
    /\ dbPre = EmptyDb
    /\ dbExistedPre = FALSE
    /\ diskPrev = EmptyFn
    /\ nLoaded = [p \in Paths |-> 0]
    /\ nUpsert = [p \in Paths |-> 0]
    /\ writes = {}
    /\ lastOk = FALSE
    /\ followsOk = FALSE
    /\ runs = 0
    /\ edits = 0
    /\ steps = << >>
    /\ metrics = << >>
    /\ alerts = << >>
    /\ argv = NoArgs
    /\ env_limit = ""
    /\ memory_warn_mb = {}
    /\ memory_limit_mb = {}
    /\ rss = 0
    /\ corpus = 0
    /\ lastFlush = 0
    /\ InitOther

\* the process is started with an argument list and an environment:
\* "args = parse_args(argv or [])", which ends the run when it raises
Invoke ==
    /\ pc = "idle"
    /\ outcome = "none"
    /\ \E a \in Argvs, e \in EnvValues :
         LET r == parse_args(EffectiveArgv(a), e) IN
         /\ argv' = a
         /\ env_limit' = e
         /\ IF r.ok
            THEN /\ batch_size' = r.args.batch_size
                 /\ memory_warn_mb' = r.args.memory_warn_mb
                 /\ memory_limit_mb' = r.args.memory_limit_mb
                 /\ pc' = "parsed"
                 /\ outcome' = "running"
                 /\ UNCHANGED <<failure, diskPrev, lastOk>>
            ELSE /\ Abort("config")
                 /\ UNCHANGED <<batch_size, memory_warn_mb, memory_limit_mb>>
    /\ steps' = << >>
    /\ UNCHANGED <<envVars, state, removed_keys, new_state, total, changed,
                   batch, listing, removed, obsVars, runs, edits, sinkVars, otherVars,
                   memVars>>

\* the files are counted and the projected estimate is compared with the
\* hard limit; SystemExit ends the run when it exceeds it
Preflight ==
    /\ pc = "parsed"
    /\ steps' = Append(steps, "list_files")
    /\ LET total_files == Cardinality(DOMAIN disk)
           projected_mb == total_files * batch_size
       IN
       IF Exceeds(projected_mb, memory_limit_mb)
       THEN Abort("preflight")
       ELSE /\ pc' = "ready"
            /\ UNCHANGED <<outcome, failure, diskPrev, lastOk>>
    /\ UNCHANGED <<envVars, runVars, obsVars, runs, edits, sinkVars, otherVars, cfgVars,
                   memVars>>

\* the run goes on to load_state and the store
OpenRun ==
    /\ pc = "ready"
    /\ Open(batch_size, steps)
    /\ UNCHANGED cfgVars

NextStart ==
    \/ Invoke
    \/ Preflight
    \/ OpenRun

SpecStart == InitStart /\ [][NextStart]_vars

(* -------------------- the scan of a large corpus ----------------------- *)

\* files scanned between two memory samples
LOG_INTERVAL == 5000

\* the batch sizes the scan is started with
MemBatchSizes == {1, 3, 100}

\* the hard limits the scan is started with: none, or the smallest one the
\* pre-flight test lets pass for this corpus and batch size
MemLimits(bs) == {{}, {MemFiles * bs}}

\* what monitor.rss_mb() can return at a sample point: any usage, of
\* which the values around the hard limit are tried
Readings(limit) ==
    IF limit = {} THEN {1}
    ELSE {ValueOf(limit) - 1, ValueOf(limit), ValueOf(limit) + 1}

\* a changed file of the large corpus, whose document is not looked into
AnyDoc == [path |-> "f", doc |-> "d"]

\* Halved as it would be without "max(1, ...)"
HalvedNoFloor(bs, limit, reading) ==
    IF limit # {} /\ ValueOf(limit) # 0 /\ reading >= ValueOf(limit)
    THEN bs \div 2
    ELSE bs

\* "if monitor.limit_mb and rss >= monitor.limit_mb:
\*      args.batch_size = max(1, args.batch_size // 2)"
Halved(bs, limit, reading) ==
    IF limit # {} /\ ValueOf(limit) # 0 /\ reading >= ValueOf(limit)
    THEN IF bs \div 2 >= 1 THEN bs \div 2 ELSE 1
    ELSE bs

\* a run over the large corpus has parsed its arguments, passed the
\* pre-flight test and reached the scan loop; of the scan only the
\* counters, the buffer and the batch size are followed: the documents
\* are all well-formed and the store is left out
StartMem ==
    /\ pc = "idle"
    /\ outcome = "none"
    /\ \E bs \in MemBatchSizes :
         \E limit \in MemLimits(bs) :
            /\ ~Exceeds(MemFiles * bs, limit)
            /\ argv' = [NoArgs EXCEPT !.batch_size = {bs},
                                      !.memory_limit_mb = limit]
            /\ batch_size' = bs
            /\ memory_limit_mb' = limit
    /\ corpus' = MemFiles
    /\ total' = 0
    /\ batch' = << >>
    /\ rss' = 0
    /\ lastFlush' = 0
    /\ pc' = "scan"
    /\ outcome' = "running"
    /\ UNCHANGED <<envVars, state, removed_keys, new_state, changed, listing,
                   removed, failure, obsVars, diskPrev, lastOk, runs, edits,
                   steps, sinkVars, otherVars, env_limit, memory_warn_mb>>

\* one iteration of the scan loop over the large corpus: the file is
\* counted, a changed one is buffered and the buffer flushed when it has
\* reached the batch size, and then, every LOG_INTERVAL files, the memory
\* is sampled and the batch size halved when the reading is at the limit;
\* lastFlush is the size of the last flush since the last sample
MemScan ==
    /\ pc = "scan"
    /\ corpus > 0
    /\ corpus' = corpus - 1
    /\ total' = total + 1
    /\ \E isChanged \in BOOLEAN :
         LET b1 == IF isChanged THEN Append(batch, AnyDoc) ELSE batch
             flush == isChanged /\ Len(b1) >= batch_size
             sample == (total + 1) % LOG_INTERVAL = 0
         IN
         /\ batch' = IF flush THEN << >> ELSE b1
         /\ IF sample
            THEN \E reading \in Readings(memory_limit_mb) :
                   /\ rss' = reading
                   /\ batch_size' = Halved(batch_size, memory_limit_mb, reading)
                   /\ lastFlush' = 0
            ELSE /\ lastFlush' = IF flush THEN Len(b1) ELSE lastFlush
                 /\ UNCHANGED <<rss, batch_size>>
    /\ UNCHANGED <<envVars, state, removed_keys, new_state, changed, listing,
                   removed, pc, outcome, failure, obsVars, diskPrev, lastOk,
                   runs, edits, steps, sinkVars, otherVars, cfgVars>>

\* "if batch: process_batch(...); batch.clear()" after the loop
MemFinalFlush ==
    /\ pc = "scan"
    /\ corpus = 0
    /\ batch' = << >>
    /\ lastFlush' = IF batch = << >> THEN lastFlush ELSE Len(batch)
    /\ pc' = "decide"
    /\ UNCHANGED <<envVars, state, removed_keys, new_state, total, changed,
                   batch_size, listing, removed, outcome, failure, obsVars,
                   diskPrev, lastOk, runs, edits, steps, sinkVars, otherVars, cfgVars,
                   rss, corpus>>

NextMem ==
    \/ StartMem
    \/ MemScan
    \/ MemFinalFlush

SpecMem == Init /\ [][NextMem]_vars

(* ------------------------------ properties ----------------------------- *)

\* documents, child rows and index rows of a store (its configuration aside)
Content(d) ==
    [issues |-> d.issues, signals |-> d.signals,
     references_web |-> d.references_web, fts |-> d.fts,
     docsize |-> d.docsize]

\* the batch a step of the scan hands to process_batch (empty when the step
\* flushes nothing): the buffer and the document just loaded when the buffer
\* reaches batch_size, the buffer itself after the last file
FlushedBatch ==
    IF pc # "scan" THEN << >>
    ELSE IF listing = {} THEN batch
    ELSE LET path == CHOOSE p \in listing : p \notin listing'
         IN IF changed' = changed + 1 /\ Len(batch) + 1 >= batch_size
            THEN Append(batch, [path |-> path,
                                doc |-> load_json(path, disk[path].content)])
            ELSE << >>

\* C1: a run that has not completed successfully (still running, aborted
\* by a load error, a failed upsert, a failed deletion or a failed integrity
\* check) leaves the Change State file as it was when the run started; the
\* file holds the new snapshot only after a run in which the scan finished,
\* every batch was flushed, the deletion pass ran and the integrity checks
\* passed.
C1_StateSavedOnlyOnSuccess ==
    /\ [](outcome \in {"running", "aborted"} => stateFile = state)
    /\ [][stateFile' # stateFile =>
            /\ pc = "finish"
            /\ listing = {}
            /\ batch = << >>
            /\ outcome' = "success"
            /\ stateFile' = new_state]_vars

C1_Witness ==
    /\ outcome = "aborted"
    /\ failure = "integrity"
    /\ new_state # stateFile
    /\ changed > 0

\* C2: when the upsert or index resync of a document of a batch fails, the
\* store afterwards is what it was before the batch began (no document of
\* the batch is applied) and the run has failed.
C2_BatchAtomicity ==
    [][~ApplyBatch(db, Docs(FlushedBatch), {}).ok =>
          /\ db' = db
          /\ outcome' = "aborted"
          /\ failure' = "upsert"]_vars

C2_Witness ==
    /\ failure = "upsert"
    /\ Len(batch) = 2
    /\ upsert_issue(db, batch[1].doc).ok
    /\ ApplyBatch(db, Docs(batch), {}).db # db


\* the document of a batch that is upserted last for an identity
LastDocFor(docs, id) ==
    docs[MaxOf({i \in 1..Len(docs) : docs[i].issue_id = id})]

BatchIds(docs) == {docs[i].issue_id : i \in 1..Len(docs)}

\* the documents table holds a row with this rowid
HasDocument(d, rowid) ==
    \E id \in DOMAIN d.issues : d.issues[id].rowid = rowid

\* rowids in use in the documents table or in the index
RowIds(d) == (DOMAIN d.fts) \cup {d.issues[id].rowid : id \in DOMAIN d.issues}

\* C3: at every transaction boundary an Index Row exists for a row identity
\* if and only if a Document with that row identity exists.
C3_IndexRowIffDocument ==
    \A r \in RowIds(db) : (FtsTerms(db, r) # {}) <=> HasDocument(db, r)

\* C4: a Document that was in the store when the run started and has been
\* upserted again in the run has an Index Row holding exactly the text
\* derived from its current Document and Signal rows, and nothing else.
C4_IndexRowIsCurrentText ==
    \A p \in Paths :
       LET id == Stem(p) IN
       (/\ nUpsert[p] > 0
        /\ id \in DOMAIN dbPre.issues
        /\ id \in DOMAIN db.issues)
       => FtsTerms(db, db.issues[id].rowid) = {FtsText(db, id)}

\* C5: a committed batch leaves, for every identity it upserted, exactly the
\* signals and exactly the references of the (last) document upserted for
\* it, whatever child rows the identity had before; the child rows of every
\* other identity are unchanged.
C5_FullReplace ==
    [][nUpsert' # nUpsert =>
         \A id \in Ids :
            IF id \in BatchIds(Docs(FlushedBatch))
            THEN /\ db'.signals[id] =
                       LastDocFor(Docs(FlushedBatch), id).signals
                 /\ db'.references_web[id] =
                       LastDocFor(Docs(FlushedBatch), id).references
            ELSE /\ db'.signals[id] = db.signals[id]
                 /\ db'.references_web[id] = db.references_web[id]]_vars

C5_Witness ==
    /\ nUpsert[<<"d1", "x">>] = 1
    /\ Len(dbPre.signals["x"]) = 3
    /\ Len(dbPre.references_web["x"]) = 1
    /\ Len(db.signals["x"]) = 1
    /\ Len(db.references_web["x"]) = 0

\* every column of a Document row equals the value in the document
RowEqualsDoc(row, doc) ==
    /\ row.issue_id = doc.issue_id
    /\ row.source = doc.source
    /\ row.source_rule_id = doc.source_rule_id
    /\ row.language = doc.language
    /\ row.title = doc.title
    /\ row.summary = doc.summary
    /\ row.fix_steps = doc.fix_steps
    /\ row.severity = doc.severity
    /\ row.confidence = doc.confidence
    /\ row.taxonomy_json = JsonDumps(doc.taxonomy)
    /\ row.frequency = doc.frequency
    /\ row.metadata_json = JsonDumps(doc.metadata)
    /\ row.updated_at = doc.updated_at

\* C6: a committed batch leaves, for every identity it upserted, one
\* Document row whose every stored attribute equals the value in the (last)
\* document upserted for it, whether the identity was new or already stored.
C6_RowEqualsDocument ==
    [][nUpsert' # nUpsert =>
         \A id \in BatchIds(Docs(FlushedBatch)) :
            /\ id \in DOMAIN db'.issues
            /\ RowEqualsDoc(db'.issues[id],
                            LastDocFor(Docs(FlushedBatch), id))]_vars

\* C7: after a run that completed successfully, a path that the Change
\* State read at its start recorded and that was absent from disk has no
\* Document, Signal, Reference or Index row for its identity and is not a
\* key of the saved Change State.
C7_DeletionCorrect ==
    (pc = "idle" /\ outcome = "success") =>
       \A p \in (DOMAIN state) \ (DOMAIN diskPrev) :
          LET id == Stem(p) IN
          /\ id \notin DOMAIN db.issues
          /\ db.signals[id] = << >>
          /\ db.references_web[id] = << >>
          /\ id \in DOMAIN dbPre.issues =>
                FtsTerms(db, dbPre.issues[id].rowid) = {}
          /\ p \notin DOMAIN stateFile

\* the files the current run (or, between runs, the last run) scans
RunDisk == IF pc = "idle" THEN diskPrev ELSE disk

ScanDone ==
    pc \in {"decide", "delete", "finish"} \/ outcome \in {"noop", "success"}

\* the Change State read at run start records, for the path, the timestamp
\* the file has
Recorded(p) == p \in DOMAIN state /\ state[p] = RunDisk[p].mtime

\* C8 as claimed: while a second or later run is in progress, a file whose
\* timestamp is what the previous run found is neither loaded nor upserted,
\* and once the scan is over every other file has been loaded once and
\* upserted once and nothing is left in the buffer.
C8_UnchangedSincePreviousRun ==
    (pc # "idle" /\ runs >= 2) =>
       /\ \A p \in DOMAIN disk :
             (p \in DOMAIN diskPrev /\ diskPrev[p].mtime = disk[p].mtime)
             => (nLoaded[p] = 0 /\ nUpsert[p] = 0)
       /\ pc \in {"decide", "delete", "finish"} =>
             /\ batch = << >>
             /\ \A p \in DOMAIN disk :
                   (p \notin DOMAIN diskPrev \/ diskPrev[p].mtime # disk[p].mtime)
                   => (nLoaded[p] = 1 /\ nUpsert[p] = 1)

\* C8 amended: a file whose timestamp equals the one the Change State read
\* at run start records for its path is neither loaded nor upserted; no file
\* is loaded or upserted twice; and in a run whose scan ends without an
\* abort every file whose timestamp differs, or whose path is not recorded,
\* has been loaded once and upserted in one batch, with nothing left in the
\* buffer.
C8_UnchangedSinceChangeState ==
    (runs >= 1 /\ outcome # "none") =>
       /\ \A p \in DOMAIN RunDisk :
             /\ nLoaded[p] <= 1
             /\ nUpsert[p] <= 1
             /\ Recorded(p) => (nLoaded[p] = 0 /\ nUpsert[p] = 0)
       /\ ScanDone =>
             /\ batch = << >>
             /\ \A p \in DOMAIN RunDisk :
                   ~Recorded(p) => (nLoaded[p] = 1 /\ nUpsert[p] = 1)

C8_Witness ==
    /\ runs >= 2
    /\ pc = "decide"
    /\ batch = << >>
    /\ \E p \in DOMAIN disk :
          /\ Recorded(p)
          /\ nLoaded[p] = 0
          /\ nUpsert[p] = 0
    /\ \E p \in DOMAIN disk :
          /\ ~Recorded(p)
          /\ nLoaded[p] = 1
          /\ nUpsert[p] = 1

\* the step that ends a run
RunEnds == pc # "idle" /\ pc' = "idle"

\* C9 as claimed: a run that follows a successful run with no change in
\* between ends in the no-op short-circuit, has issued no write to the store
\* and leaves the store and the Change State file as they were.
C9_NoWriteAtAll ==
    [][(RunEnds /\ followsOk) =>
          /\ outcome' = "noop"
          /\ writes' = {}
          /\ db' = dbPre
          /\ stateFile' = state]_vars

\* C9 amended: such a run ends in the no-op short-circuit; its only write to
\* the store is the index configuration (automerge) set at start, with the
\* value it already had; documents, signals, references and index rows are
\* not written and are unchanged, and so is the Change State file.
C9_NoContentWrite ==
    [][(RunEnds /\ followsOk) =>
          /\ outcome' = "noop"
          /\ writes' = {"fts_config"}
          /\ Content(db') = Content(dbPre)
          /\ db'.automerge = dbPre.automerge
          /\ stateFile' = state]_vars

C9_Witness ==
    /\ pc = "idle"
    /\ followsOk
    /\ outcome = "noop"
    /\ DOMAIN db.issues # {}
    /\ DOMAIN stateFile # {}

\* C10: the no-op short-circuit is taken only when nothing changed, nothing
\* was removed and the store existed before the run began.
C10_NoopOnlyWithStore ==
    outcome = "noop" =>
       /\ changed = 0
       /\ removed = {}
       /\ dbExistedPre

\* the run ends with an exception raised by a batch after the first or by
\* the integrity check
AbortsLate ==
    /\ RunEnds
    /\ outcome' = "aborted"
    /\ \/ failure' = "integrity"
       \/ failure' = "upsert" /\ \E p \in Paths : nUpsert[p] > 0

\* the next run starts after such an abort
StartsAfterLateAbort ==
    /\ pc = "idle" /\ pc' = "scan"
    /\ outcome = "aborted"
    /\ \/ failure = "integrity"
       \/ failure = "upsert" /\ \E p \in Paths : nUpsert[p] > 0

\* the file p is as the aborted run found it
Unmodified(p) ==
    p \in DOMAIN disk /\ p \in DOMAIN diskPrev /\ disk[p] = diskPrev[p]

\* C11: after a run aborts in a later batch or in the integrity check, the
\* store holds the document of every file whose batch the run committed,
\* and the run that follows classifies as changed-or-new every file the
\* aborted run classified so and that was not modified in between (the
\* Change State it loads does not match the file's timestamp).
C11_AbortKeepsWorkAndRetries ==
    /\ [][AbortsLate =>
            \A p \in Paths :
               nUpsert'[p] > 0 => Stem(p) \in DOMAIN db'.issues]_vars
    /\ [][StartsAfterLateAbort =>
            \A p \in Paths :
               (nLoaded[p] > 0 /\ Unmodified(p)) =>
                  StateGet(state', p) # disk[p].mtime]_vars

\* the files the scan of this run has visited so far
Visited == DOMAIN disk \ listing

\* the visited files whose recorded timestamp equals the one observed
Unchanged == {p \in Visited : StateGet(state, p) = disk[p].mtime}

\* the visited files the run handed to load_json
ChangedOrNew == {p \in Visited : nLoaded[p] > 0}

\* C12: throughout the scan and at its end, unchanged, changed-or-new and
\* removed are pairwise disjoint; once the scan is over removed is exactly
\* the set of old Change State paths that were not visited; the new
\* snapshot has exactly one entry per visited file, the timestamp observed
\* in this scan, and nothing of the old state is carried over.
C12_ScanPartition ==
    pc # "idle" =>
       /\ Unchanged \cap ChangedOrNew = {}
       /\ Unchanged \cap removed_keys = {}
       /\ ChangedOrNew \cap removed_keys = {}
       /\ removed_keys = DOMAIN state \ Visited
       /\ pc \in {"delete", "finish"} => removed = DOMAIN state \ Visited
       /\ DOMAIN new_state = Visited
       /\ \A p \in Visited : new_state[p] = disk[p].mtime

C12_Witness ==
    /\ pc = "delete"
    /\ removed # {}
    /\ ChangedOrNew # {}
    /\ \E p \in DOMAIN state : p \notin DOMAIN new_state

\* where the run did ev
Positions(ev) == {i \in 1..Len(steps) : steps[i] = ev}

\* the run did a, every time, before it did b
Before(a, b) == \A i \in Positions(a), j \in Positions(b) : i < j

\* the run did ev exactly once
Once(ev) == Cardinality(Positions(ev)) = 1

\* C16: a run that ends in success has committed every batch transaction,
\* then the deletion transaction (when a path was removed), then run the
\* full merge, then the optimize pass, then the index consistency check,
\* then the whole-store integrity check, each once, and has written the
\* Change State after all of them, as its last step.
C16_StepOrder ==
    outcome = "success" =>
       /\ Before("commit_batch", "begin_delete")
       /\ Before("commit_batch", "merge")
       /\ Before("begin_batch", "merge")
       /\ Before("commit_delete", "merge")
       /\ (removed # {}) = Once("commit_delete")
       /\ (removed = {}) = (Positions("commit_delete") = {})
       /\ Cardinality(Positions("commit_batch")) =
              Cardinality(Positions("begin_batch"))
       /\ changed > 0 => Positions("commit_batch") # {}
       /\ Once("merge") /\ Once("optimize") /\ Once("check_fts")
       /\ Once("check_db") /\ Once("save_state")
       /\ Before("merge", "optimize")
       /\ Before("optimize", "check_fts")
       /\ Before("check_fts", "check_db")
       /\ Before("check_db", "save_state")
       /\ steps[Len(steps)] = "save_state"

C16_Witness ==
    /\ outcome = "success"
    /\ Positions("commit_batch") # {}
    /\ Once("commit_delete")

\* how many times the first i steps of the run did one of evs
Count(evs, i) == Cardinality({j \in 1..i : steps[j] \in evs})

\* the transactions open after the first i steps of the run: those begun
\* and neither committed nor rolled back
OpenAfter(i) ==
    Count({"begin_batch", "begin_delete", "begin_final"}, i)
      - Count({"commit_batch", "commit_delete", "commit_final",
               "rollback_batch", "rollback_delete", "rollback_final"}, i)

\* C17: at most one write transaction is open at any time during a run,
\* and when the run has ended, by an error as well as by success, every
\* transaction it opened for a batch or for the deletion pass has been
\* committed or rolled back, once.
C17_TransactionsClosed ==
    /\ \A i \in 0..Len(steps) : OpenAfter(i) \in {0, 1}
    /\ pc = "idle" =>
          /\ Count({"begin_batch"}, Len(steps)) =
                Count({"commit_batch", "rollback_batch"}, Len(steps))
          /\ Count({"begin_delete"}, Len(steps)) =
                Count({"commit_delete", "rollback_delete"}, Len(steps))

\* C18: when a run has ended by a load error, a transactional error or an
\* integrity error, the metrics sink and the critical-alert sink have each
\* received a notification.
C18_SinksNotifiedOnFailure ==
    (outcome = "aborted" /\ failure \in {"load", "upsert", "delete", "integrity"})
       => (Len(metrics) > 0 /\ Len(alerts) > 0)

\* what the run did that reads or writes a file, the Change State or the
\* store (counting the files only lists the directories)
IoSteps ==
    {"load_state", "save_state", "connect", "schema", "automerge",
     "commit_config", "stat_mtime", "stat_size", "read", "begin_batch",
     "commit_batch", "begin_delete", "commit_delete", "begin_final", "merge",
     "optimize", "check_fts", "check_db", "commit_final", "close"}

\* C15: when the arguments are parsed, a hard limit is configured and the
\* file count times the batch size exceeds it, the next step of the run
\* ends it (pre-flight abort), and at that point the Change State has been
\* neither read nor written, the store neither opened nor modified, and no
\* document loaded.
C15_PreflightAbort ==
    [][(/\ pc = "parsed"
        /\ memory_limit_mb # {}
        /\ Cardinality(DOMAIN disk) * batch_size > ValueOf(memory_limit_mb))
       => /\ pc' = "idle"
          /\ outcome' = "aborted"
          /\ failure' = "preflight"
          /\ \A i \in 1..Len(steps') : steps'[i] \notin IoSteps
          /\ stateFile' = stateFile
          /\ state' = state
          /\ dbExists' = dbExists
          /\ db' = db
          /\ \A p \in Paths : nLoaded'[p] = 0]_vars

C15_Witness ==
    /\ outcome = "aborted"
    /\ failure = "preflight"
    /\ memory_limit_mb = {3}
    /\ Cardinality(DOMAIN disk) = 2
    /\ batch_size = 2
    /\ ~dbExists

\* the configuration the process was started with has one of the errors:
\* a batch size outside the bounds, a memory warning or hard-limit option
\* that is not positive, a hard-limit environment value that is not an
\* integer
InvalidConfig ==
    \/ /\ argv.batch_size # {}
       /\ ~(ValueOf(argv.batch_size) \in BatchSizeMin..BatchSizeMax)
    \/ NotPositive(argv.memory_warn_mb)
    \/ NotPositive(argv.memory_limit_mb)
    \/ env_limit # "" /\ ParseInt(env_limit) = {}

\* C20: a process started with such a configuration error has failed with
\* a configuration error, and has done no file, Change State or store I/O.
C20_ConfigErrorsFailFast ==
    (outcome # "none" /\ InvalidConfig) =>
       /\ outcome = "aborted"
       /\ failure = "config"
       /\ steps = << >>

\* C13: within one run the batch size never increases and never drops
\* below 1; it changes only in a step that reaches a memory sample point,
\* which is every LOG_INTERVAL files scanned, changed or not; in such a
\* step it becomes its half (integer division, at least 1) if a hard limit
\* is configured and the reading is at or above it, and stays as it is
\* otherwise.
C13_BatchSizeShrinksAtSamples ==
    [][pc = "scan" =>
          LET sample == total' # total /\ total' % LOG_INTERVAL = 0
              over == memory_limit_mb # {} /\ rss' >= ValueOf(memory_limit_mb)
              half == batch_size \div 2
          IN
          /\ batch_size' <= batch_size
          /\ batch_size' >= 1
          /\ batch_size' # batch_size => sample
          /\ rss' # rss => sample
          /\ (sample /\ over) =>
                 batch_size' = (IF half < 1 THEN 1 ELSE half)
          /\ ~(sample /\ over) => batch_size' = batch_size]_vars

C13_Witness ==
    /\ argv.batch_size = {3}
    /\ batch_size = 1
    /\ memory_limit_mb # {}
    /\ rss = ValueOf(memory_limit_mb)
    /\ total > LOG_INTERVAL

\* C14: in a run started with batch size 100 in which a memory reading at
\* or above the hard limit was taken, every flush after the reading has
\* applied at most 50 documents, and the batch size is below 100.
C14_FlushesAtMostHalf ==
    (/\ argv.batch_size = {100}
     /\ memory_limit_mb # {}
     /\ total >= LOG_INTERVAL
     /\ rss >= ValueOf(memory_limit_mb))
    => (lastFlush <= 50 /\ batch_size < 100)

\* the file the scan visits in this step
ScannedPath == CHOOSE p \in listing : p \notin listing'

\* C19: when the scan hands a changed-or-new file to the loader, a file of
\* exactly MAX_JSON_BYTES bytes is read and its document taken into the
\* run, and a file one byte larger is rejected after its size was looked
\* up and before any of it is read; the rejection ends the run, and
\* nothing is written to the store by that step: the documents buffered
\* for the current batch are not committed.
C19_SizeCeiling ==
    [][(pc = "scan" /\ listing' # listing
          /\ StateGet(state, ScannedPath) # disk[ScannedPath].mtime) =>
          LET size == Size(disk[ScannedPath].content)
              done == SubSeq(steps', Len(steps) + 1, Len(steps'))
          IN
          /\ size = MAX_JSON_BYTES =>
                /\ changed' = changed + 1
                /\ failure' # "load"
                /\ SubSeq(done, 1, 3) = <<"stat_mtime", "stat_size", "read">>
          /\ size = MAX_JSON_BYTES + 1 =>
                /\ pc' = "idle"
                /\ outcome' = "aborted"
                /\ failure' = "load"
                /\ done = <<"stat_mtime", "stat_size">>
                /\ db' = db
                /\ writes' = writes
                /\ nUpsert' = nUpsert
                /\ batch' = batch]_vars

C19_Witness ==
    /\ outcome = "aborted"
    /\ failure = "load"
    /\ Len(batch) = 1
    /\ Size(disk[batch[1].path].content) = MAX_JSON_BYTES
    /\ nUpsert[batch[1].path] = 0
    /\ batch[1].doc.issue_id \notin DOMAIN db.issues
    /\ \E p \in DOMAIN disk : Size(disk[p].content) = MAX_JSON_BYTES + 1

\* C25: when a run completes successfully, as a no-op or not, every
\* document in the store has the identity of a source file that was on
\* disk during the scan of that run.
C25_DocumentsHaveFiles ==
    [][(RunEnds /\ outcome' \in {"success", "noop"}) =>
          \A id \in DOMAIN db'.issues :
             \E p \in DOMAIN disk : Stem(p) = id]_vars

\* C26: when a run completes successfully, every source file that was on
\* disk during its scan has its document in the store.
C26_FilesHaveDocuments ==
    [][(RunEnds /\ outcome' = "success") =>
          \A p \in DOMAIN disk : Stem(p) \in DOMAIN db'.issues]_vars


(* ------------------- writes made while a scan runs --------------------- *)

\* the external writer creates a file (one per identity, holding a
\* well-formed document) between two runs, or gives a file another content
\* between two runs or while the scan is under way; the
\* timestamp the write leaves is any the clock and the writer can give,
\* the one the file has (same clock tick, restored timestamp) included
WriteRace ==
    /\ pc \in {"idle", "scan", "load"}
    /\ edits < MaxEdits
    /\ \E p \in {<<"d1", "x">>, <<"d1", "y">>}, c \in {"v1", "v2"},
          m \in MTimes :
          /\ pc # "idle" => p \in DOMAIN disk
          /\ p \in DOMAIN disk => disk[p].content # c
          /\ disk' = Put(disk, p, [mtime |-> m, content |-> c])
          /\ stamps' = [stamps EXCEPT ![p] = @ \cup {m}]
          /\ racy' = IF m \in stamps[p] THEN racy \cup {p} ELSE racy \ {p}
          /\ midscan' = IF pc # "idle" THEN midscan \cup {p}
                        ELSE midscan \ {p}
    /\ edits' = edits + 1
    /\ lastOk' = FALSE
    /\ UNCHANGED <<stateFile, dbExists, db, pc, runVars, outcome, failure,
                   obsVars, diskPrev, runs, steps, sinkVars, cfgVars,
                   memVars, cur, searchVars, emitVars,
                   orchVars>>

\* one iteration of "for path in iter_issue_files()" up to the test
\* "state.get(key) != mtime": the timestamp is read and recorded, and the
\* file is classified
StatFile ==
    /\ pc = "scan"
    /\ \E path \in listing :
         LET mtime == disk[path].mtime
             key == path
         IN
         /\ listing' = listing \ {path}
         /\ total' = total + 1
         /\ new_state' = Put(new_state, key, mtime)
         /\ removed_keys' = removed_keys \ {key}
         /\ steps' = Append(steps, "stat_mtime")
         /\ IF StateGet(state, key) # mtime
            THEN /\ pc' = "load"
                 /\ cur' = {path}
            ELSE UNCHANGED <<pc, cur>>
    /\ UNCHANGED <<disk, stateFile, dbExists, db, state, changed, batch,
                   batch_size, removed, outcome, failure, obsVars, diskPrev,
                   lastOk, runs, edits, sinkVars, cfgVars, memVars, stamps,
                   midscan, racy, searchVars, emitVars,
                   orchVars>>

\* the rest of the iteration for a file classified as changed: load_json
\* reads the content the file has now, the document joins the batch, and a
\* full batch is flushed
LoadFile ==
    /\ pc = "load"
    /\ \E path \in cur :
         LET content == disk[path].content
             b1 == Append(batch, [path |-> path,
                                  doc |-> load_json(path, content)])
             r == process_batch(db, Docs(b1))
             s2 == steps \o LoadSteps(content)
         IN
         /\ cur' = {}
         /\ nLoaded' = [nLoaded EXCEPT ![path] = @ + 1]
         /\ IF ~Loadable(content)
            THEN /\ Abort("load")
                 /\ steps' = s2
                 /\ UNCHANGED <<db, batch, changed, nUpsert, writes>>
            ELSE
              /\ changed' = changed + 1
              /\ IF ~(Len(b1) >= batch_size)
                 THEN /\ batch' = b1
                      /\ steps' = s2
                      /\ pc' = "scan"
                      /\ UNCHANGED <<db, nUpsert, writes, outcome, failure,
                                     diskPrev, lastOk>>
                 ELSE
                   /\ writes' = writes \cup r.w
                   /\ db' = r.db
                   /\ steps' = s2 \o BatchSteps(r.ok)
                   /\ IF r.ok
                      THEN /\ batch' = << >>
                           /\ nUpsert' = [p \in Paths |->
                                IF p \in BatchPaths(b1)
                                THEN nUpsert[p] + 1 ELSE nUpsert[p]]
                           /\ pc' = "scan"
                           /\ UNCHANGED <<outcome, failure, diskPrev,
                                          lastOk>>
                      ELSE /\ batch' = b1
                           /\ Abort("upsert")
                           /\ UNCHANGED nUpsert
    /\ UNCHANGED <<disk, stateFile, dbExists, state, removed_keys, new_state,
                   total, batch_size, listing, removed, dbPre, dbExistedPre,
                   followsOk, runs, edits, sinkVars, cfgVars, memVars,
                   stamps, midscan, racy, searchVars, emitVars,
                   orchVars>>

NextRace ==
    \/ WriteRace
    \/ StartRun
    \/ StatFile
    \/ LoadFile
    \/ FinalFlush
    \/ Decide
    \/ DeletePass
    \/ Finish

SpecRace == Init /\ [][NextRace]_vars

\* the store holds, for the identity of the file, the version of the
\* document the file holds now
IndexedCurrent(p) ==
    /\ Stem(p) \in DOMAIN db.issues
    /\ db.issues[Stem(p)].updated_at =
          load_json(p, disk[p].content).updated_at

CacheMax == 128

\* queries, as the sequence of their characters: the empty string, one
\* blank, and two terms between blanks
Queries == { << >>, <<" ">>, <<" ", "t", " ", "s", " ">> }

\* positive limits, none below the number of identities
Limits == {2, 3}

\* the characters of an indexed token
Spell(token) ==
    CASE token = "t1" -> <<"t", "1">>
      [] token = "t2" -> <<"t", "2">>
      [] token = "t3" -> <<"t", "3">>
      [] token = "s1" -> <<"s", "1">>
      [] token = "f2" -> <<"f", "2">>
      [] token = "py" -> <<"p", "y">>
      [] token = "js" -> <<"j", "s">>
      [] token = "k1" -> <<"k", "1">>
      [] token = "k2" -> <<"k", "2">>
      [] token = "sql" -> <<"s", "q", "l">>
      [] token = "auth" -> <<"a", "u", "t", "h">>
      [] OTHER -> <<token>>

\* str.split(): the maximal runs of characters that are not blanks
RECURSIVE SplitFrom(_, _, _)
SplitFrom(chars, term, acc) ==
    IF chars = << >>
    THEN IF term = << >> THEN acc ELSE Append(acc, term)
    ELSE IF Head(chars) = " "
         THEN SplitFrom(Tail(chars), << >>,
                        IF term = << >> THEN acc ELSE Append(acc, term))
         ELSE SplitFrom(Tail(chars), Append(term, Head(chars)), acc)

Split(chars) == SplitFrom(chars, << >>, << >>)

\* ' '.join(parts)
RECURSIVE Join(_)
Join(parts) ==
    IF parts = << >> THEN << >>
    ELSE IF Len(parts) = 1 THEN Head(parts)
    ELSE Head(parts) \o <<" ">> \o Join(Tail(parts))

\* _prepare_query: "term*" for every term of query.split(), joined by blanks
prepare_query(query) ==
    LET terms == Split(query) IN
    Join([i \in 1..Len(terms) |-> Append(terms[i], "*")])

\* the prefixes FTS5 reads in a match expression made of "term*" phrases;
\* an expression without a phrase is a syntax error
MatchPrefixes(expr) ==
    LET phrases == Split(expr) IN
    [i \in 1..Len(phrases) |-> SubSeq(phrases[i], 1, Len(phrases[i]) - 1)]

\* fts_issues MATCH expr for a rowid: every prefix starts one of the tokens
\* the index holds under the rowid
RowMatches(d, rowid, prefixes) ==
    \A i \in 1..Len(prefixes) :
       \E text \in FtsTerms(d, rowid) :
          \E tok \in
               ({text.title, text.summary, text.fix_steps, text.language}
                  \cup {text.signals_concat[k] :
                           k \in 1..Len(text.signals_concat)}) \ {""} :
             /\ Len(prefixes[i]) <= Len(Spell(tok))
             /\ SubSeq(Spell(tok), 1, Len(prefixes[i])) = prefixes[i]

\* the SELECT of query_fts on store d: the five columns of the documents
\* whose rowid matches, and LIMIT ?, at most limit of them (which ones bm25
\* decides; the limits tried cut nothing)
SelectHits(d, expr, limit) ==
    LET hits ==
          {[issue_id |-> d.issues[i].issue_id, title |-> d.issues[i].title,
            summary |-> d.issues[i].summary,
            fix_steps |-> d.issues[i].fix_steps,
            language |-> d.issues[i].language] : i \in
              {i \in DOMAIN d.issues :
                  RowMatches(d, d.issues[i].rowid, MatchPrefixes(expr))}}
    IN IF Cardinality(hits) <= limit THEN hits
       ELSE CHOOSE h \in SUBSET hits : Cardinality(h) = limit

\* query_fts as it would be without "if not query: return []"
query_fts_unguarded(d, query, limit) ==
    LET expr == prepare_query(query) IN
    IF MatchPrefixes(expr) = << >>
    THEN [out |-> "error", rows |-> {}, opened |-> TRUE, sent |-> {expr}]
    ELSE [out |-> "rows", rows |-> SelectHits(d, expr, limit),
          opened |-> TRUE, sent |-> {expr}]

\* query_fts: "if not query: return []", then the store is opened and the
\* match expression sent; the result tells whether rows came back or the
\* store raised, whether the store was opened and what was sent
query_fts(d, query, limit) ==
    IF query = << >>
    THEN [out |-> "rows", rows |-> {}, opened |-> FALSE, sent |-> {}]
    ELSE LET expr == prepare_query(query) IN
         IF MatchPrefixes(expr) = << >>
         THEN [out |-> "error", rows |-> {}, opened |-> TRUE,
               sent |-> {expr}]
         ELSE [out |-> "rows", rows |-> SelectHits(d, expr, limit),
               opened |-> TRUE, sent |-> {expr}]

\* positions of a (query, limit) pair in the cache
CacheIndex(c, key) == {i \in 1..Len(c) : c[i].key = key}

\* Touch as it would be if a hit left the entry where it was
TouchNot(c, i) == c

\* a hit makes its entry the most recently used
Touch(c, i) ==
    Append(SubSeq(c, 1, i - 1) \o SubSeq(c, i + 1, Len(c)), c[i])

\* search(query, limit) through the lru_cache wrapper: a hit returns the
\* cached value, a miss calls query_fts and caches what it returns, and an
\* exception query_fts raises is cached nowhere; the entry of a miss is
\* added, and a cache that was full drops its oldest entry
Search(query, limit) ==
    LET key == <<query, limit>>
        found == CacheIndex(cache, key)
        r == query_fts(db, query, limit)
    IN
    /\ searches' = searches + 1
    /\ lastUse' = Put(lastUse, key, searches + 1)
    /\ IF found # {}
       THEN LET i == CHOOSE j \in found : TRUE IN
            /\ cache' = Touch(cache, i)
            /\ answer' = [key |-> key, out |-> "rows",
                          rows |-> cache[i].value, hit |-> TRUE]
            /\ UNCHANGED <<connects, sent>>
       ELSE /\ connects' = connects + (IF r.opened THEN 1 ELSE 0)
            /\ sent' = sent \cup r.sent
            /\ answer' = [key |-> key, out |-> r.out, rows |-> r.rows,
                          hit |-> FALSE]
            /\ cache' = IF r.out = "rows"
                        THEN Append(IF Len(cache) >= CacheMax
                                    THEN Tail(cache) ELSE cache,
                                    [key |-> key, value |-> r.rows])
                        ELSE cache
    /\ UNCHANGED <<disk, stateFile, dbExists, db, pc, runVars, outcome,
                   failure, obsVars, diskPrev, lastOk, runs, edits, steps,
                   sinkVars, cfgVars, memVars, raceVars, emitVars,
                   orchVars>>

\* a search made between two runs on the store a run has created
SearchSome ==
    /\ pc = "idle"
    /\ dbExists
    /\ searches < MaxSearches
    /\ \E q \in Queries, l \in Limits : Search(q, l)

\* the producing collaborator writes or rewrites the file issues/d1/x.json
\* between two runs
WriteDoc ==
    /\ pc = "idle"
    /\ edits < MaxEdits
    /\ \E p \in {<<"d1", "x">>}, c \in {"v1", "v2"}, m \in MTimes :
          /\ p \in DOMAIN disk => disk[p].mtime # m
          /\ disk' = Put(disk, p, [mtime |-> m, content |-> c])
    /\ edits' = edits + 1
    /\ lastOk' = FALSE
    /\ UNCHANGED <<stateFile, dbExists, db, pc, runVars, outcome, failure,
                   obsVars, diskPrev, runs, steps, sinkVars, otherVars,
                   cfgVars, memVars>>

NextSearch ==
    \/ WriteDoc
    \/ RemoveFile
    \/ StartRun
    \/ ScanFile
    \/ FinalFlush
    \/ Decide
    \/ DeletePass
    \/ Finish
    \/ SearchSome

SpecSearch == Init /\ [][NextSearch]_vars

\* C22: a search for the empty string with a positive limit returns an
\* empty result list, is not an error, and neither opens nor queries the
\* store.
C22_EmptyQueryTouchesNothing ==
    [][(/\ searches' = searches + 1
        /\ answer'.key[1] = << >>
        /\ answer'.key[2] > 0) =>
          /\ answer'.out = "rows"
          /\ answer'.rows = {}
          /\ connects' = connects
          /\ sent' = sent]_vars

\* the empty string has been searched for, on a store that holds a document,
\* and the query engine has computed the answer
C22_Witness ==
    /\ answer.out = "rows"
    /\ answer.key[1] = << >>
    /\ ~answer.hit
    /\ DOMAIN db.issues # {}

\* C28: search(query, limit) always returns what query_fts would return
\* against the current store, also for a pair cached before an indexing run
\* changed the store.
C28_SearchIsCurrent ==
    [][searches' = searches + 1 =>
          /\ answer'.out = query_fts(db, answer'.key[1], answer'.key[2]).out
          /\ answer'.rows = query_fts(db, answer'.key[1], answer'.key[2]).rows]_vars

\* C29: a query without terms is handled like the empty query (it returns
\* an empty list), an empty match expression is never sent to the store, and
\* every match expression sent has exactly one wildcard-suffixed term per
\* whitespace-delimited term of the query.
C29_BlankQueryLikeEmpty ==
    /\ [](<< >> \notin sent)
    /\ [][searches' = searches + 1 =>
            /\ Split(answer'.key[1]) = << >> =>
                  answer'.out = "rows" /\ answer'.rows = {}
            /\ \A e \in sent' \ sent :
                  /\ Len(Split(e)) = Len(Split(answer'.key[1]))
                  /\ \A i \in 1..Len(Split(e)) :
                        Split(e)[i] = Append(Split(answer'.key[1])[i], "*")]_vars


(* ----------------------- the filling of the cache ---------------------- *)

\* the query a caller repeats with one limit after the other
FillQuery == <<" ", "t", " ", "s", " ">>

\* the state after the file issues/d1/x.json was written and a run indexed
\* it with success
InitCache ==
    /\ disk = Put(EmptyFn, <<"d1", "x">>, [mtime |-> 1, content |-> "v1"])
    /\ stateFile = Put(EmptyFn, <<"d1", "x">>, 1)
    /\ dbExists = TRUE
    /\ db = process_batch(SetAutomerge(EmptyDb),
                          <<load_json(<<"d1", "x">>, "v1")>>).db
    /\ pc = "idle"
    /\ state = EmptyFn
    /\ removed_keys = {}
    /\ new_state = stateFile
    /\ total = 1
    /\ changed = 1
    /\ batch = << >>
    /\ batch_size = 1
    /\ listing = {}
    /\ removed = {}
    /\ outcome = "success"
    /\ failure = "none"
    /\ dbPre = EmptyDb
    /\ dbExistedPre = FALSE
    /\ diskPrev = disk
    /\ nLoaded = [p \in Paths |-> IF p = <<"d1", "x">> THEN 1 ELSE 0]
    /\ nUpsert = [p \in Paths |-> IF p = <<"d1", "x">> THEN 1 ELSE 0]
    /\ writes = {"schema", "fts_config", "issues", "signals",
                 "references_web", "fts_issues", "fts_merge", "fts_optimize"}
    /\ lastOk = TRUE
    /\ followsOk = FALSE
    /\ runs = 1
    /\ edits = 1
    /\ steps = << >>
    /\ metrics = << >>
    /\ alerts = << >>
    /\ argv = [NoArgs EXCEPT !.batch_size = {1}]
    /\ env_limit = ""
    /\ memory_warn_mb = {}
    /\ memory_limit_mb = {}
    /\ rss = 0
    /\ corpus = 0
    /\ lastFlush = 0
    /\ InitOther

\* a caller that goes through the limits, enough of them to fill the cache
\* and to evict twice: the next search takes the next limit
SearchNext ==
    /\ pc = "idle"
    /\ dbExists
    /\ Cardinality(DOMAIN lastUse) < CacheMax + 2
    /\ Search(FillQuery, Cardinality(DOMAIN lastUse) + 1)

\* once the cache is one entry short of full, the caller repeats the pair
\* the cache has used least recently
SearchOldest ==
    /\ pc = "idle"
    /\ dbExists
    /\ Len(cache) >= CacheMax - 1
    /\ searches - Cardinality(DOMAIN lastUse) < MaxRepeats
    /\ Search(cache[1].key[1], cache[1].key[2])

NextCache ==
    \/ SearchNext
    \/ SearchOldest

SpecCache == InitCache /\ [][NextCache]_vars

\* the pairs the cache holds
CachedKeys(c) == {c[i].key : i \in 1..Len(c)}

\* C21: the query cache never holds more than 128 (query, limit) entries;
\* inserting a new pair into a full cache evicts the least recently used
\* pair and no other; and a search for a pair still in the cache returns
\* the cached result without opening or querying the store.
C21_CacheBoundedLru ==
    /\ [](Len(cache) <= CacheMax)
    /\ [][searches' = searches + 1 =>
            /\ answer'.key \in CachedKeys(cache) =>
                  /\ answer'.hit
                  /\ answer'.out = "rows"
                  /\ \A i \in CacheIndex(cache, answer'.key) :
                        answer'.rows = cache[i].value
                  /\ connects' = connects
                  /\ sent' = sent
                  /\ CachedKeys(cache') = CachedKeys(cache)
            /\ (answer'.key \notin CachedKeys(cache)
                   /\ answer'.out = "rows" /\ Len(cache) = CacheMax) =>
                  /\ answer'.key \in CachedKeys(cache')
                  /\ \E e \in CachedKeys(cache) :
                        /\ CachedKeys(cache') =
                              (CachedKeys(cache) \ {e}) \cup {answer'.key}
                        /\ \A k \in CachedKeys(cache) :
                              lastUse[e] <= lastUse[k]]_vars

\* the cache is full, the pair searched for first, which was repeated
\* before the cache filled, is still in it while the second pair was
\* evicted, and the last search was answered from the cache
C21_Witness ==
    /\ Len(cache) = CacheMax
    /\ <<FillQuery, 1>> \in CachedKeys(cache)
    /\ <<FillQuery, 2>> \in DOMAIN lastUse \ CachedKeys(cache)
    /\ answer.hit
    /\ answer.rows # {}


(* ------------------------ the emitter of issue files ------------------- *)

\* batches of up to two documents handed to write_issues_batch: two
\* identities with two bodies each, and a document whose issue_id is not 40
\* hexadecimal characters
EmitBatches ==
    LET EmitDocs == [issue_id : {"a", "b"}, body : {"n1", "n2"}]
                       \cup {[issue_id |-> "BAD", body |-> "n1"]}
    IN {<< >>} \cup {<<x>> : x \in EmitDocs}
               \cup {<<x, y>> : x \in EmitDocs, y \in EmitDocs}

\* the first loop of write_issues_batch from document i on: tmps are the
\* temporary files that exist, listed is temp_paths; the final file
\* (ROOT / src / lang / issue_id).json and its temporary file are named by
\* the issue_id; a document whose issue_id ISSUE_ID_PATTERN does not match
\* raises before its temporary file is opened, a refused open
\* leaves no file, and a refused write leaves the file open() created
\* without its path having reached temp_paths
RECURSIVE WriteTemps(_, _, _, _, _)
WriteTemps(docs, i, fail, tmps, listed) ==
    IF i > Len(docs) THEN [ok |-> TRUE, tmps |-> tmps, listed |-> listed]
    ELSE IF docs[i].issue_id = "BAD"
         THEN [ok |-> FALSE, tmps |-> tmps, listed |-> listed]
    ELSE IF fail = [step |-> "open", at |-> i]
         THEN [ok |-> FALSE, tmps |-> tmps, listed |-> listed]
    ELSE IF fail = [step |-> "write", at |-> i]
         THEN [ok |-> FALSE,
               tmps |-> Put(tmps, docs[i].issue_id, "partial"),
               listed |-> listed]
    ELSE WriteTemps(docs, i + 1, fail,
                    Put(tmps, docs[i].issue_id, docs[i].body),
                    Append(listed, docs[i].issue_id))

\* the second loop, "tmp.replace(final)", from entry j on: a refused move
\* raises, and so does the move of a temporary file an earlier entry of the
\* same path has already moved
RECURSIVE MoveTemps(_, _, _, _, _)
MoveTemps(listed, j, fail, files, tmps) ==
    IF j > Len(listed) THEN [ok |-> TRUE, files |-> files, tmps |-> tmps]
    ELSE IF fail = [step |-> "move", at |-> j]
              \/ listed[j] \notin DOMAIN tmps
         THEN [ok |-> FALSE, files |-> files, tmps |-> tmps]
    ELSE MoveTemps(listed, j + 1, fail,
                   Put(files, listed[j], tmps[listed[j]]),
                   Remove(tmps, listed[j]))

\* write_issues_batch on the files and temporary files there are; Cleanup
\* is "for tmp in temp_paths: if tmp.exists(): tmp.unlink()"
write_issues_batch(files, tmps, docs, fail) ==
    LET w == WriteTemps(docs, 1, fail, tmps, << >>)
        m == MoveTemps(w.listed, 1, fail, files, w.tmps)
        Cleanup(left, listed) ==
            [q \in (DOMAIN left) \ {listed[i] : i \in 1..Len(listed)} |->
               left[q]]
    IN IF ~w.ok
       THEN [out |-> "raised", files |-> files,
             tmps |-> Cleanup(w.tmps, w.listed)]
       ELSE IF ~m.ok
       THEN [out |-> "raised", files |-> m.files,
             tmps |-> Cleanup(m.tmps, w.listed)]
       ELSE [out |-> "returned", files |-> m.files, tmps |-> m.tmps]

\* a collector calls write_issues_batch; the file system may refuse one
\* file operation of the call: opening the temporary file of a document,
\* writing it, moving it into place
EmitBatch ==
    /\ emits < MaxEmits
    /\ \E docs \in EmitBatches,
          fail \in {NoFailure}
                     \cup [step : {"open", "write", "move"}, at : {1, 2}] :
         LET r == write_issues_batch(issueFiles, tmpFiles, docs, fail) IN
         /\ issueFiles' = r.files
         /\ tmpFiles' = r.tmps
         /\ emitted' = [docs |-> docs, out |-> r.out, fail |-> fail]
    /\ emits' = emits + 1
    /\ UNCHANGED <<nearVars, orchVars>>

NextEmit == EmitBatch

SpecEmit == Init /\ [][NextEmit]_vars

\* C23: write_issues_batch is all-or-nothing: whenever it returns or raises,
\* whichever document or step fails, either every document of the batch has
\* its final file in place or no final file was created or replaced, and no
\* temporary file is left behind.
C23_BatchAllOrNothing ==
    [][(emits' = emits + 1) =>
          /\ \/ \A i \in 1..Len(emitted'.docs) :
                   /\ emitted'.docs[i].issue_id \in DOMAIN issueFiles'
                   /\ \E j \in 1..Len(emitted'.docs) :
                         /\ emitted'.docs[j].issue_id
                               = emitted'.docs[i].issue_id
                         /\ issueFiles'[emitted'.docs[i].issue_id]
                               = emitted'.docs[j].body
             \/ issueFiles' = issueFiles
          /\ tmpFiles' = EmptyFn]_vars


(* ----------------------- the threshold orchestrator -------------------- *)

\* "retries: int = 3" of read_current_config and write_config
DefaultRetries == 3

Clamp(lo, x, hi) == IF x < lo THEN lo ELSE IF x > hi THEN hi ELSE x

\* _calculate_phase_thresholds: max(0.0, min(1.0, base * multiplier)), in
\* thousandths; the multiplier is self.phase_multipliers[phase]['security'],
\* in tenths
calculate_phase_thresholds(phase, base) ==
    LET multiplier == CASE phase = "init" -> 7
                        [] phase = "dev" -> 8
                        [] phase = "stabilization" -> 10
                        [] OTHER -> 11
    IN Clamp(0, (base * multiplier) \div 10, 1000)

\* _apply_learning_feedback: one thousandth up (at most 0.1) for a success
\* rate above 0.9, one down (at least -0.1) below 0.7, then kept in
\* [-0.2, 0.2]
apply_learning_feedback(adj, fb) ==
    LET a == IF fb = "high" THEN (IF adj + 1 < 100 THEN adj + 1 ELSE 100)
             ELSE IF fb = "low"
                  THEN (IF adj - 1 > -100 THEN adj - 1 ELSE -100)
             ELSE adj
    IN Clamp(-200, a, 200)

\* FileNotFoundError, json.JSONDecodeError: what the handlers catch
Unreadable(d) == d.kind \in {"missing", "invalid"}

\* the checks "if '...' not in config_data: raise ValueError"
LacksField(d) == d.kind = "json" /\ ~(RequiredFields \subseteq d.fields)

\* the updated_config an operation computes from the configuration read
Updated(op, arg, config) ==
    IF op = "phase"
    THEN [project_phase |-> arg,
          gate_thresholds |->
             calculate_phase_thresholds(arg, config.gate_thresholds),
          learning_adjustments |-> config.learning_adjustments]
    ELSE [project_phase |-> config.project_phase,
          gate_thresholds |-> config.gate_thresholds,
          learning_adjustments |->
             apply_learning_feedback(config.learning_adjustments, arg)]

\* the dashboard file is left in another state before the first operation:
\* absent, not JSON, or a JSON object with the schema field only
ReplaceDashboard ==
    /\ calls = 0
    /\ dashboard = DefaultDashboard
    /\ dashboard' \in
          { [DefaultDashboard EXCEPT !.kind = "missing", !.fields = {}],
            [DefaultDashboard EXCEPT !.kind = "invalid", !.fields = {}],
            [DefaultDashboard EXCEPT !.fields = {"schema"}] }
    /\ UNCHANGED <<nearVars, emitVars, tasks, lock, version, calls>>

\* read_current_config(retries) is called: with no attempt to make, the
\* loop is skipped and the last statement raises
CallRead(t) ==
    /\ tasks[t].pc = "idle"
    /\ calls < MaxCalls
    /\ \E r \in {0, 1, 2} :
         tasks' = [tasks EXCEPT ![t] =
            [IdleTask EXCEPT !.op = "read", !.retries = r,
                             !.pc = IF r > 0 THEN "read" ELSE "idle",
                             !.res = IF r > 0 THEN "none"
                                     ELSE "OrchestratorUpdateError"]]
    /\ calls' = calls + 1
    /\ UNCHANGED <<nearVars, emitVars, dashboard, lock, version>>

\* handle_phase_transition(new_phase) is called, with a phase of
\* phase_multipliers or with one that is not
CallPhase(t) ==
    /\ tasks[t].pc = "idle"
    /\ calls < MaxCalls
    /\ \E new \in {"release", "bogus"} :
         LET valid == new \in {"init", "dev", "stabilization", "release"}
         IN tasks' = [tasks EXCEPT ![t] =
               [IdleTask EXCEPT !.op = "phase", !.arg = new,
                                !.retries = DefaultRetries,
                                !.pc = IF valid THEN "read" ELSE "idle",
                                !.res = IF valid THEN "none"
                                        ELSE "OrchestratorUpdateError"]]
    /\ calls' = calls + 1
    /\ UNCHANGED <<nearVars, emitVars, dashboard, lock, version>>

\* update_learning_adjustments(feedback_data) is called, with a success
\* rate above 0.9 or with one below 0.7
CallLearn(t) ==
    /\ tasks[t].pc = "idle"
    /\ calls < MaxCalls
    /\ \E fb \in {"high", "low"} :
         tasks' = [tasks EXCEPT ![t] =
            [IdleTask EXCEPT !.op = "learn", !.arg = fb,
                             !.retries = DefaultRetries, !.pc = "read"]]
    /\ calls' = calls + 1
    /\ UNCHANGED <<nearVars, emitVars, dashboard, lock, version>>

\* one attempt of the loop of read_current_config; an exception that
\* leaves read_current_config inside an operation is wrapped by the
\* operation's "except Exception"
ReadAttempt(t) ==
    /\ tasks[t].pc = "read"
    /\ LET me == tasks[t]
           made == [me EXCEPT !.attempt = @ + 1]
           config == [project_phase |-> dashboard.project_phase,
                      gate_thresholds |-> dashboard.gate_thresholds,
                      learning_adjustments |->
                         dashboard.learning_adjustments]
       IN
       IF Unreadable(dashboard)
       THEN IF me.attempt = me.retries - 1
            THEN tasks' = [tasks EXCEPT ![t] =
                    [made EXCEPT !.pc = "idle",
                                 !.res = "OrchestratorUpdateError"]]
            ELSE tasks' = [tasks EXCEPT ![t] = made]
       ELSE IF LacksField(dashboard)
       THEN tasks' = [tasks EXCEPT ![t] =
               [made EXCEPT !.pc = "idle",
                            !.res = IF me.op = "read" THEN "ValueError"
                                    ELSE "OrchestratorUpdateError"]]
       ELSE IF me.op = "read"
       THEN tasks' = [tasks EXCEPT ![t] =
               [made EXCEPT !.pc = "idle", !.res = "config",
                            !.config = {config}]]
       ELSE tasks' = [tasks EXCEPT ![t] =
               [made EXCEPT !.pc = "lock", !.seen = version,
                            !.config = {Updated(me.op, me.arg, config)}]]
    /\ UNCHANGED <<nearVars, emitVars, dashboard, lock, version, calls>>

\* write_config: "async with self._lock"
Acquire(t) ==
    /\ tasks[t].pc = "lock"
    /\ lock = 0
    /\ lock' = t
    /\ tasks' = [tasks EXCEPT ![t].pc = "wread", ![t].attempt = 0]
    /\ UNCHANGED <<nearVars, emitVars, dashboard, version, calls>>

\* one attempt of write_config up to the opening for writing: the file is
\* read to keep its other fields, and the three fields take the values of
\* the configuration computed
WriteRead(t) ==
    /\ tasks[t].pc = "wread"
    /\ LET me == tasks[t]
           cfg == CHOOSE c \in me.config : TRUE
       IN
       IF Unreadable(dashboard)
       THEN IF me.attempt = me.retries - 1
            THEN /\ tasks' = [tasks EXCEPT ![t].pc = "idle",
                                 ![t].res = "OrchestratorUpdateError"]
                 /\ lock' = 0
            ELSE /\ tasks' = [tasks EXCEPT ![t].attempt = @ + 1]
                 /\ UNCHANGED lock
       ELSE /\ tasks' = [tasks EXCEPT ![t].pc = "wopen",
                 ![t].data = {[kind |-> "json",
                    fields |-> dashboard.fields \cup RequiredFields,
                    project_phase |-> cfg.project_phase,
                    gate_thresholds |-> cfg.gate_thresholds,
                    learning_adjustments |-> cfg.learning_adjustments]}]
            /\ UNCHANGED lock
    /\ UNCHANGED <<nearVars, emitVars, dashboard, version, calls>>

\* aiofiles.open(self.dashboard_path, 'w'): the file is truncated, and so
\* not JSON while it is open for writing
WriteOpen(t) ==
    /\ tasks[t].pc = "wopen"
    /\ dashboard' = [DefaultDashboard EXCEPT !.kind = "invalid",
                                             !.fields = {}]
    /\ tasks' = [tasks EXCEPT ![t].pc = "wwrite"]
    /\ UNCHANGED <<nearVars, emitVars, lock, version, calls>>

\* the content is written, the file closed, the lock released and the
\* operation returns
WriteFlush(t) ==
    /\ tasks[t].pc = "wwrite"
    /\ dashboard' = CHOOSE x \in tasks[t].data : TRUE
    /\ version' = version + 1
    /\ lock' = 0
    /\ tasks' = [tasks EXCEPT ![t].pc = "idle", ![t].res = "updated"]
    /\ UNCHANGED <<nearVars, emitVars, calls>>

NextOrch ==
    \/ ReplaceDashboard
    \/ \E t \in Tasks : CallRead(t)
    \/ \E t \in Tasks : CallPhase(t)
    \/ \E t \in Tasks : CallLearn(t)
    \/ \E t \in Tasks : ReadAttempt(t)
    \/ \E t \in Tasks : Acquire(t)
    \/ \E t \in Tasks : WriteRead(t)
    \/ \E t \in Tasks : WriteOpen(t)
    \/ \E t \in Tasks : WriteFlush(t)

SpecOrch == Init /\ [][NextOrch]_vars

\* C24: read_current_config fails with OrchestratorUpdateError whenever the
\* dashboard file is missing, is not valid JSON or lacks a required field,
\* after at most retries read attempts; no other exception type escapes.
C24_ReadFailsWithUpdateError ==
    [][\A t \in Tasks :
          (/\ tasks'[t].op = "read"
           /\ tasks'[t].pc = "idle"
           /\ \/ tasks[t].pc = "read"
              \/ tasks[t].pc = "idle" /\ tasks'[t] # tasks[t]) =>
          /\ (Unreadable(dashboard) \/ LacksField(dashboard)) =>
                tasks'[t].res = "OrchestratorUpdateError"
          /\ tasks'[t].attempt <= tasks'[t].retries
          /\ tasks'[t].res \in {"config", "OrchestratorUpdateError"}]_vars

\* C30: when two update operations run concurrently on one orchestrator,
\* no operation writes a configuration computed from a dashboard read that
\* preceded the other operation's write.
C30_NoLostUpdate ==
    [][\A t \in Tasks :
          (tasks[t].pc = "wwrite" /\ tasks'[t].pc = "idle") =>
             tasks[t].seen = version]_vars

====
